---- MODULE Spec2Model ----
(***************************************************************************)
(* Model of the reconciliation engine of core_reconciliation.py:           *)
(* build_new_norm, patch_rma_na_with_pr2 and build_final_output_df, with   *)
(* the text helpers and regular expressions they use.                      *)
(*                                                                         *)
(* A text (a Python str) is a sequence of one-character strings, so the    *)
(* regular expressions, strip(), upper() and the substring tests are       *)
(* computed character by character.  A table (a DataFrame) is a record     *)
(* [cols, rows]: the column names in order, and the rows in order, each    *)
(* row a function from the column names to texts.                          *)
(*                                                                         *)
(* raw, main, norm, patched and final hold the tables of the calls of the  *)
(* engine; arg and ret hold the argument and the result of a direct call   *)
(* of a helper.                                                            *)
(***************************************************************************)
EXTENDS Integers, Sequences, FiniteSets, TLC

VARIABLES raw, main, norm, patched, final, pc, arg, ret

vars == <<raw, main, norm, patched, final, pc, arg, ret>>

(***************************************************************************)
(* Characters                                                              *)
(***************************************************************************)
Digits == {"0", "1", "2", "3", "4", "5", "6", "7", "8", "9"}

LowerLetters ==
    <<"a", "b", "c", "d", "e", "f", "g", "h", "i", "j", "k", "l", "m",
      "n", "o", "p", "q", "r", "s", "t", "u", "v", "w", "x", "y", "z">>

UpperLetters ==
    <<"A", "B", "C", "D", "E", "F", "G", "H", "I", "J", "K", "L", "M",
      "N", "O", "P", "Q", "R", "S", "T", "U", "V", "W", "X", "Y", "Z">>

Range(s) == {s[i] : i \in DOMAIN s}

WhiteSpace == {" ", "\t", "\n"}

IsDigit(c) == c \in Digits

IsAlnum(c) == c \in Digits \cup Range(LowerLetters) \cup Range(UpperLetters)

\* \w of the re module, on the characters of the model
IsWordChar(c) == IsAlnum(c) \/ c = "_"

upperOf == [c \in Range(LowerLetters) |->
               UpperLetters[CHOOSE i \in DOMAIN LowerLetters : LowerLetters[i] = c]]

lowerOf == [c \in Range(UpperLetters) |->
               LowerLetters[CHOOSE i \in DOMAIN UpperLetters : UpperLetters[i] = c]]

\* str.upper()
Upper(s) == [i \in DOMAIN s |-> IF s[i] \in DOMAIN upperOf THEN upperOf[s[i]] ELSE s[i]]

\* str.lower()
Lower(s) == [i \in DOMAIN s |-> IF s[i] \in DOMAIN lowerOf THEN lowerOf[s[i]] ELSE s[i]]

\* str.strip()
Strip(s) ==
    LET keep == {i \in DOMAIN s : s[i] \notin WhiteSpace}
    IN  IF keep = {} THEN <<>>
        ELSE LET lo == CHOOSE i \in keep : \A j \in keep : i <= j
                 hi == CHOOSE i \in keep : \A j \in keep : j <= i
             IN  SubSeq(s, lo, hi)

\* sub in s
Contains(s, sub) ==
    \E i \in 0..(Len(s) - Len(sub)) : SubSeq(s, i + 1, i + Len(sub)) = sub

\* s.endswith(suf)
EndsWith(s, suf) ==
    Len(s) >= Len(suf) /\ SubSeq(s, Len(s) - Len(suf) + 1, Len(s)) = suf

(***************************************************************************)
(* config.py: the regular expressions                                      *)
(***************************************************************************)
RmaLen == 8

TnTailLen == 16

\* RMA_STRICT_RX.fullmatch(s): ^\d{8}$
RMA_STRICT_RX(s) == Len(s) = RmaLen /\ \A i \in DOMAIN s : IsDigit(s[i])

\* RMA_PREF6_RX.fullmatch(s): ^6\d{7}$
RMA_PREF6_RX(s) == RMA_STRICT_RX(s) /\ s[1] = "6"

\* Any8At without the lookahead (?!\d)
Any8At_NoLookahead(s, i) ==
    /\ i + RmaLen - 1 <= Len(s)
    /\ \A j \in i..(i + RmaLen - 1) : IsDigit(s[j])
    /\ (i = 1 \/ ~IsDigit(s[i - 1]))

\* RMA_ANY8_IN_TEXT_RX matches at position i: (?<!\d)\d{8}(?!\d)
Any8At(s, i) ==
    /\ i + RmaLen - 1 <= Len(s)
    /\ \A j \in i..(i + RmaLen - 1) : IsDigit(s[j])
    /\ (i = 1 \/ ~IsDigit(s[i - 1]))
    /\ (i + RmaLen > Len(s) \/ ~IsDigit(s[i + RmaLen]))

RECURSIVE Any8From(_, _)
Any8From(s, i) ==
    IF i > Len(s) THEN <<>>
    ELSE IF Any8At(s, i)
         THEN <<SubSeq(s, i, i + RmaLen - 1)>> \o Any8From(s, i + RmaLen)
         ELSE Any8From(s, i + 1)

\* RMA_ANY8_IN_TEXT_RX.findall(s)
RMA_ANY8_IN_TEXT_RX(s) == Any8From(s, 1)

\* UPS_TN_REGEX matches at position i: \b1Z[0-9A-Z]{16}\b, re.IGNORECASE
TnAt(s, i) ==
    LET n == 2 + TnTailLen
    IN  /\ i + n - 1 <= Len(s)
        /\ s[i] = "1"
        /\ s[i + 1] \in {"Z", "z"}
        /\ \A j \in (i + 2)..(i + n - 1) : IsAlnum(s[j])
        /\ (i = 1 \/ ~IsWordChar(s[i - 1]))
        /\ (i + n > Len(s) \/ ~IsWordChar(s[i + n]))

RECURSIVE TnFrom(_, _)
TnFrom(s, i) ==
    IF i > Len(s) THEN <<>>
    ELSE IF TnAt(s, i)
         THEN <<SubSeq(s, i, i + 1 + TnTailLen)>> \o TnFrom(s, i + 2 + TnTailLen)
         ELSE TnFrom(s, i + 1)

\* the matches of UPS_TN_REGEX.finditer(s), in order
UPS_TN_REGEX(s) == TnFrom(s, 1)

(***************************************************************************)
(* Text literals of the code                                               *)
(***************************************************************************)
EMPTY == <<>>

TXT_NA == <<"N", "/", "A">>

TXT_nan == <<"n", "a", "n">>

TXT_none == <<"n", "o", "n", "e">>

TXT_not_avail == <<"n", "o", "t", " ", "a", "v", "a", "i", "l">>

TXT_dot0 == <<".", "0">>

TXT_CONS_PICK_UP == <<"C", "O", "N", "S", " ", "P", "I", "C", "K", " ", "U", "P">>

(***************************************************************************)
(* core_reconciliation.py: basic normalization helpers                     *)
(***************************************************************************)
\* _norm_na(value) for a str value
_norm_na(value) ==
    LET text == Strip(value)
        lower == Lower(text)
    IN  IF text = EMPTY THEN TXT_NA
        ELSE IF lower \in {TXT_nan, TXT_none} \/ Contains(lower, TXT_not_avail)
             THEN TXT_NA
             ELSE text

\* _to_str(value, drop_na)
_to_str(value, drop_na) ==
    LET v == _norm_na(value)
    IN  IF drop_na /\ v = TXT_NA THEN EMPTY ELSE v

\* Dedup without the `seen` test: every occurrence is kept
Dedup_KeepAll(tokens) == tokens

\* de-duplication in encounter order (the seen/ordered loop)
RECURSIVE Dedup(_)
Dedup(tokens) ==
    IF tokens = <<>> THEN <<>>
    ELSE LET init == Dedup(SubSeq(tokens, 1, Len(tokens) - 1))
             t == tokens[Len(tokens)]
         IN  IF t \in Range(init) THEN init ELSE Append(init, t)

StartsWith(x, c) == Len(x) >= 1 /\ x[1] = c

\* RankTokens with the '7' class after the rest
RankTokens_SevenLast(ordered) ==
    LET pref6 == SelectSeq(ordered, LAMBDA x : StartsWith(x, "6"))
        pref7 == SelectSeq(ordered, LAMBDA x : StartsWith(x, "7"))
        rest == SelectSeq(ordered, LAMBDA x : ~(StartsWith(x, "6") \/ StartsWith(x, "7")))
    IN  pref6 \o rest \o pref7

\* pref6 + pref7 + rest
RankTokens(ordered) ==
    LET pref6 == SelectSeq(ordered, LAMBDA x : StartsWith(x, "6"))
        pref7 == SelectSeq(ordered, LAMBDA x : StartsWith(x, "7"))
        rest == SelectSeq(ordered, LAMBDA x : ~(StartsWith(x, "6") \/ StartsWith(x, "7")))
    IN  pref6 \o pref7 \o rest

\* _clean_rma_string that returns the trimmed text when it has no token
_clean_rma_string_KeepText(value) ==
    LET s0 == Strip(value)
        s == IF EndsWith(s0, TXT_dot0) THEN SubSeq(s0, 1, Len(s0) - 2) ELSE s0
        tokens == RMA_ANY8_IN_TEXT_RX(s)
    IN  IF tokens = <<>> THEN s ELSE RankTokens(Dedup(tokens))[1]

\* _clean_rma_string(value) for a str value
_clean_rma_string(value) ==
    LET s0 == Strip(value)
        s == IF EndsWith(s0, TXT_dot0) THEN SubSeq(s0, 1, Len(s0) - 2) ELSE s0
        tokens == RMA_ANY8_IN_TEXT_RX(s)
    IN  IF tokens = <<>> THEN EMPTY ELSE RankTokens(Dedup(tokens))[1]

\* _extract_tn_list(text) for a str value
_extract_tn_list(text) ==
    LET ms == UPS_TN_REGEX(text)
    IN  [i \in DOMAIN ms |-> Upper(ms[i])]

\* the literals of _canonical_status
TXT_delivered == <<"d", "e", "l", "i", "v", "e", "r", "e", "d">>

TXT_exception == <<"e", "x", "c", "e", "p", "t", "i", "o", "n">>

TXT_in_transit == <<"i", "n", " ", "t", "r", "a", "n", "s", "i", "t">>

TXT_out_for_delivery == <<"o", "u", "t", " ", "f", "o", "r", " ", "d", "e", "l", "i", "v", "e", "r", "y">>

TXT_out_of_delivery == <<"o", "u", "t", " ", "o", "f", " ", "d", "e", "l", "i", "v", "e", "r", "y">>

TXT_manifest == <<"m", "a", "n", "i", "f", "e", "s", "t">>

TXT_void == <<"v", "o", "i", "d">>

TXT_Delivered == <<"D", "e", "l", "i", "v", "e", "r", "e", "d">>

TXT_Exception == <<"E", "x", "c", "e", "p", "t", "i", "o", "n">>

TXT_In_Transit == <<"I", "n", " ", "T", "r", "a", "n", "s", "i", "t">>

TXT_Out_for_Delivery == <<"O", "u", "t", " ", "f", "o", "r", " ", "D", "e", "l", "i", "v", "e", "r", "y">>

TXT_Manifest == <<"M", "a", "n", "i", "f", "e", "s", "t">>

TXT_Void == <<"V", "o", "i", "d">>

\* _canonical_status that tests "exception" before "delivered"
_canonical_status_ExceptionFirst(value) ==
    LET s == Lower(Strip(value))
    IN  IF Contains(s, TXT_exception) THEN TXT_Exception
        ELSE IF Contains(s, TXT_delivered) THEN TXT_Delivered
        ELSE IF Contains(s, TXT_in_transit) THEN TXT_In_Transit
        ELSE IF Contains(s, TXT_out_for_delivery) \/ Contains(s, TXT_out_of_delivery)
             THEN TXT_Out_for_Delivery
        ELSE IF Contains(s, TXT_manifest) THEN TXT_Manifest
        ELSE IF Contains(s, TXT_void) THEN TXT_Void
        ELSE IF Contains(s, TXT_not_avail) \/ s = EMPTY THEN TXT_NA
        ELSE IF Strip(value) = EMPTY THEN TXT_NA ELSE Strip(value)

\* _canonical_status(value) for a str value
_canonical_status(value) ==
    LET s == Lower(Strip(value))
    IN  IF Contains(s, TXT_delivered) THEN TXT_Delivered
        ELSE IF Contains(s, TXT_exception) THEN TXT_Exception
        ELSE IF Contains(s, TXT_in_transit) THEN TXT_In_Transit
        ELSE IF Contains(s, TXT_out_for_delivery) \/ Contains(s, TXT_out_of_delivery)
             THEN TXT_Out_for_Delivery
        ELSE IF Contains(s, TXT_manifest) THEN TXT_Manifest
        ELSE IF Contains(s, TXT_void) THEN TXT_Void
        ELSE IF Contains(s, TXT_not_avail) \/ s = EMPTY THEN TXT_NA
        ELSE IF Strip(value) = EMPTY THEN TXT_NA ELSE Strip(value)

(***************************************************************************)
(* Tables                                                                  *)
(***************************************************************************)
\* None, where a table is expected
None == [none |-> TRUE]

IsNone(df) == "none" \in DOMAIN df

\* the outcome of a call that raised instead of returning
KeyError == [raised |-> "KeyError"]

AttributeError == [raised |-> "AttributeError"]

Raised(x) == "raised" \in DOMAIN x

\* r.get(col, "") on a row of a table
Get(r, col) == IF col \in DOMAIN r THEN r[col] ELSE EMPTY

\* df.empty
IsEmpty(df) == Len(df.rows) = 0 \/ Len(df.cols) = 0

\* the flattening of a sequence of sequences, in order
RECURSIVE Flatten(_)
Flatten(ss) ==
    IF ss = <<>> THEN <<>> ELSE Flatten(SubSeq(ss, 1, Len(ss) - 1)) \o ss[Len(ss)]

(***************************************************************************)
(* UPS column harmonization                                                *)
(***************************************************************************)
\* the values of `mapping`, in its order
MappingValues ==
    <<"Manifest Date", "Package Reference No. 1", "Package Reference No. 2",
      "RMA Number", "Tracking Number", "Tracking Number - Details", "Status",
      "Shipper Name", "Ship To", "Scheduled Delivery",
      "Original Scheduled Delivery Date", "Date Delivered",
      "Exception Description", "Exception Resolution", "Ship To Location",
      "Weight">>

\* str(c).lower().strip() of the column names the tables of the model use
HeaderKey(c) ==
    CASE c = "Manifest Date" -> "manifest date"
      [] c = "Package Reference No. 1" -> "package reference no. 1"
      [] c = "Package Reference No. 2" -> "package reference no. 2"
      [] c = "RMA Number" -> "rma number"
      [] c = "Tracking Number" -> "tracking number"
      [] c = "TRACKING NUMBER " -> "tracking number"
      [] c = "Tracking Number - Details" -> "tracking number - details"
      [] c = "Status" -> "status"
      [] c = "Shipper Name" -> "shipper name"
      [] c = "Ship To" -> "ship to"
      [] c = " ship to" -> "ship to"
      [] c = "Scheduled Delivery" -> "scheduled delivery"
      [] c = "Original Scheduled Delivery Date" -> "original scheduled delivery date"
      [] c = "Date Delivered" -> "date delivered"
      [] c = "Exception Description" -> "exception description"
      [] c = "Exception Resolution" -> "exception resolution"
      [] c = "Ship To Location" -> "ship to location"
      [] c = "Weight" -> "weight"
      [] c = "Notes" -> "notes"
      [] c = "Original RMA" -> "original rma"
      [] OTHER -> c

\* mapping.get(key, c)
MappingGet(key, c) ==
    CASE key = "manifest date" -> "Manifest Date"
      [] key = "package reference no. 1" -> "Package Reference No. 1"
      [] key = "package reference no. 2" -> "Package Reference No. 2"
      [] key = "rma number" -> "RMA Number"
      [] key = "tracking number" -> "Tracking Number"
      [] key = "tracking number - details" -> "Tracking Number - Details"
      [] key = "status" -> "Status"
      [] key = "shipper name" -> "Shipper Name"
      [] key = "ship to" -> "Ship To"
      [] key = "scheduled delivery" -> "Scheduled Delivery"
      [] key = "original scheduled delivery date" -> "Original Scheduled Delivery Date"
      [] key = "date delivered" -> "Date Delivered"
      [] key = "exception description" -> "Exception Description"
      [] key = "exception resolution" -> "Exception Resolution"
      [] key = "ship to location" -> "Ship To Location"
      [] key = "weight" -> "Weight"
      [] OTHER -> c

\* map_new_columns that looks for the missing columns among the names
\* before the renaming
map_new_columns_MissingBeforeRename(df) ==
    LET renamed == [i \in DOMAIN df.cols |-> MappingGet(HeaderKey(df.cols[i]), df.cols[i])]
        missing == SelectSeq(MappingValues, LAMBDA c : c \notin Range(df.cols))
        cols == renamed \o missing
        OldOf(c) == df.cols[CHOOSE i \in DOMAIN renamed : renamed[i] = c]
    IN  [cols |-> cols,
         rows |-> [k \in DOMAIN df.rows |->
                     [c \in Range(cols) |->
                        IF c \in Range(renamed) THEN df.rows[k][OldOf(c)] ELSE EMPTY]]]

\* map_new_columns that fills a missing column with 'N/A'
map_new_columns_FillNA(df) ==
    LET renamed == [i \in DOMAIN df.cols |-> MappingGet(HeaderKey(df.cols[i]), df.cols[i])]
        missing == SelectSeq(MappingValues, LAMBDA c : c \notin Range(renamed))
        cols == renamed \o missing
        OldOf(c) == df.cols[CHOOSE i \in DOMAIN renamed : renamed[i] = c]
    IN  [cols |-> cols,
         rows |-> [k \in DOMAIN df.rows |->
                     [c \in Range(cols) |->
                        IF c \in Range(renamed) THEN df.rows[k][OldOf(c)] ELSE TXT_NA]]]

\* map_new_columns(df)
map_new_columns(df) ==
    LET renamed == [i \in DOMAIN df.cols |-> MappingGet(HeaderKey(df.cols[i]), df.cols[i])]
        missing == SelectSeq(MappingValues, LAMBDA c : c \notin Range(renamed))
        cols == renamed \o missing
        OldOf(c) == df.cols[CHOOSE i \in DOMAIN renamed : renamed[i] = c]
    IN  [cols |-> cols,
         rows |-> [k \in DOMAIN df.rows |->
                     [c \in Range(cols) |->
                        IF c \in Range(renamed) THEN df.rows[k][OldOf(c)] ELSE EMPTY]]]

\* the texts of the non-blank fields of a row, stripped, in column order
FieldTexts(cols, row) ==
    LET stripped == [i \in DOMAIN cols |-> Strip(row[cols[i]])]
    IN  SelectSeq(stripped, LAMBDA s : s # EMPTY)

\* extract_all_rma_tokens_from_row(row); cols is row.index
extract_all_rma_tokens_from_row(cols, row) ==
    LET texts == FieldTexts(cols, row)
        pool == Flatten([i \in DOMAIN texts |-> RMA_ANY8_IN_TEXT_RX(texts[i])])
    IN  IF pool = <<>> THEN <<>> ELSE RankTokens(Dedup(pool))

(***************************************************************************)
(* Normalized NEW frame                                                    *)
(***************************************************************************)
\* the columns of the frame build_new_norm returns
NormCols ==
    <<"Manifest Date", "Original RMA", "RMA Number", "Tracking Number", "Status",
      "Shipper Name", "Ship To", "Scheduled Delivery", "Date Delivered",
      "Exception Description", "Exception Resolution", "Ship To Location",
      "Weight", "Package Reference No. 2">>

\* sources_for_token that returns the hits from the last column to the first
sources_for_token_LastFirst(cols, r, tok) ==
    LET texts == FieldTexts(cols, r)
        hits == SelectSeq(texts, LAMBDA s : tok \in Range(RMA_ANY8_IN_TEXT_RX(s)))
    IN  IF hits = <<>> THEN <<EMPTY>>
        ELSE [i \in DOMAIN hits |-> hits[Len(hits) + 1 - i]]

\* sources_for_token(tok): hits or [""]
sources_for_token(cols, r, tok) ==
    LET texts == FieldTexts(cols, r)
        hits == SelectSeq(texts, LAMBDA s : tok \in Range(RMA_ANY8_IN_TEXT_RX(s)))
    IN  IF hits = <<>> THEN <<EMPTY>> ELSE hits

\* NormRow without tn.upper()
NormRow_NoUpper(r, original_val, rma, tn) ==
    [c \in Range(NormCols) |->
        CASE c = "Original RMA" -> original_val
          [] c = "RMA Number" -> rma
          [] c = "Tracking Number" -> tn
          [] c = "Status" -> _canonical_status(Get(r, "Status"))
          [] OTHER -> _to_str(Get(r, c), FALSE)]

\* the dict appended to rows for a record r
NormRow(r, original_val, rma, tn) ==
    [c \in Range(NormCols) |->
        CASE c = "Original RMA" -> original_val
          [] c = "RMA Number" -> rma
          [] c = "Tracking Number" -> Upper(tn)
          [] c = "Status" -> _canonical_status(Get(r, "Status"))
          [] OTHER -> _to_str(Get(r, c), FALSE)]

\* tn after lines 312-319; NoTn stands for the `continue`
NoTn == <<"continue">>

\* TrackingNumberOf without the `continue`: the record goes on with tn = ""
TrackingNumberOf_NoSkip(r) ==
    LET tn == Strip(Get(r, "Tracking Number"))
        tns == _extract_tn_list(Get(r, "Tracking Number - Details"))
    IN  IF tn # EMPTY THEN tn
        ELSE IF tns # <<>> THEN tns[1]
        ELSE EMPTY

\* TrackingNumberOf that looks in the details first
TrackingNumberOf_DetailsFirst(r) ==
    LET tn == Strip(Get(r, "Tracking Number"))
        tns == _extract_tn_list(Get(r, "Tracking Number - Details"))
    IN  IF tns # <<>> THEN tns[1]
        ELSE IF tn # EMPTY THEN tn
        ELSE NoTn

TrackingNumberOf(r) ==
    LET tn == Strip(Get(r, "Tracking Number"))
        tns == _extract_tn_list(Get(r, "Tracking Number - Details"))
    IN  IF tn # EMPTY THEN tn
        ELSE IF tns # <<>> THEN tns[1]
        ELSE NoTn

\* RowsOfRecord whose placeholder row takes its 'Original RMA' through _norm_na
RowsOfRecord_PlaceholderNA(cols, r) ==
    LET tn == TrackingNumberOf(r)
        all_tokens == extract_all_rma_tokens_from_row(cols, r)
    IN  IF tn = NoTn THEN <<>>
        ELSE IF all_tokens # <<>>
             THEN [i \in DOMAIN all_tokens |->
                     NormRow(r, sources_for_token(cols, r, all_tokens[i])[1],
                             all_tokens[i], tn)]
             ELSE <<NormRow(r, _norm_na(Get(r, "RMA Number")), EMPTY, tn)>>

\* the rows one iteration of the loop over new_df.iterrows() appends
RowsOfRecord(cols, r) ==
    LET tn == TrackingNumberOf(r)
        all_tokens == extract_all_rma_tokens_from_row(cols, r)
    IN  IF tn = NoTn THEN <<>>
        ELSE IF all_tokens # <<>>
             THEN [i \in DOMAIN all_tokens |->
                     NormRow(r, sources_for_token(cols, r, all_tokens[i])[1],
                             all_tokens[i], tn)]
             ELSE <<NormRow(r, Strip(Get(r, "RMA Number")), EMPTY, tn)>>

\* normalize_rma_column_inplace that writes 'N/A' where no token is found
normalize_rma_column_inplace_NA(df) ==
    IF "RMA Number" \in Range(df.cols)
    THEN [df EXCEPT !.rows =
             [k \in DOMAIN df.rows |->
                 [df.rows[k] EXCEPT !["RMA Number"] = _norm_na(_clean_rma_string(@))]]]
    ELSE df

\* normalize_rma_column_inplace(df)
normalize_rma_column_inplace(df) ==
    IF "RMA Number" \in Range(df.cols)
    THEN [df EXCEPT !.rows =
             [k \in DOMAIN df.rows |->
                 [df.rows[k] EXCEPT !["RMA Number"] = _clean_rma_string(@)]]]
    ELSE df

\* build_new_norm that puts the rows of a later record first
build_new_norm_LaterFirst(new_df) ==
    LET df == map_new_columns(new_df)
        n == Len(df.rows)
        rows == Flatten([k \in DOMAIN df.rows |->
                            RowsOfRecord(df.cols, df.rows[n + 1 - k])])
    IN  normalize_rma_column_inplace([cols |-> NormCols, rows |-> rows])

\* build_new_norm(new_df)
build_new_norm(new_df) ==
    LET df == map_new_columns(new_df)
        rows == Flatten([k \in DOMAIN df.rows |-> RowsOfRecord(df.cols, df.rows[k])])
    IN  normalize_rma_column_inplace([cols |-> NormCols, rows |-> rows])

(***************************************************************************)
(* RMA 'N/A' patched via PR2                                               *)
(***************************************************************************)
\* _pick_best_rma with no preference for a '6'
_pick_best_rma_First(candidates) ==
    LET only8 == SelectSeq(candidates, LAMBDA c : RMA_STRICT_RX(Strip(c)))
    IN  IF only8 = <<>> THEN EMPTY ELSE only8[1]

\* _pick_best_rma(candidates)
_pick_best_rma(candidates) ==
    LET only8 == SelectSeq(candidates, LAMBDA c : RMA_STRICT_RX(Strip(c)))
        six == SelectSeq(only8, LAMBDA c : RMA_PREF6_RX(c))
    IN  IF candidates = <<>> THEN EMPTY
        ELSE IF only8 = <<>> THEN EMPTY
        ELSE IF six # <<>> THEN six[1]
        ELSE only8[1]

\* tn_to_pr2 in which a row with no valid token leaves an earlier value alone
RECURSIVE tn_to_pr2_KeepValid(_, _)
tn_to_pr2_KeepValid(rows, n) ==
    IF n = 0 THEN [k \in {} |-> EMPTY]
    ELSE LET m == tn_to_pr2_KeepValid(rows, n - 1)
             r == rows[n]
             tn == Upper(Strip(Get(r, "Tracking Number")))
             pr2 == Strip(Get(r, "Package Reference No. 2"))
             best == _pick_best_rma(RMA_ANY8_IN_TEXT_RX(pr2))
         IN  IF tn = EMPTY \/ (best = EMPTY /\ tn \in DOMAIN m) THEN m
             ELSE [k \in DOMAIN m \cup {tn} |-> IF k = tn THEN best ELSE m[k]]

\* the dict tn_to_pr2 after the first n rows of new_norm_df
RECURSIVE tn_to_pr2(_, _)
tn_to_pr2(rows, n) ==
    IF n = 0 THEN [k \in {} |-> EMPTY]
    ELSE LET m == tn_to_pr2(rows, n - 1)
             r == rows[n]
             tn == Upper(Strip(Get(r, "Tracking Number")))
             pr2 == Strip(Get(r, "Package Reference No. 2"))
             best == _pick_best_rma(RMA_ANY8_IN_TEXT_RX(pr2))
         IN  IF tn = EMPTY THEN m
             ELSE [k \in DOMAIN m \cup {tn} |-> IF k = tn THEN best ELSE m[k]]

\* tn_to_pr2.get(key, "")
DictGet(m, key) == IF key \in DOMAIN m THEN m[key] ELSE EMPTY

\* fallback_rma without the fullmatch test of the looked-up value
fallback_rma_Unchecked(m, val, tn_details) ==
    LET s == Strip(val)
        tns == _extract_tn_list(tn_details)
        pr2_best == DictGet(m, tns[1])
    IN  IF s # EMPTY /\ Upper(s) # TXT_NA /\ RMA_STRICT_RX(s) THEN s
        ELSE IF tn_details # EMPTY /\ tns # <<>> THEN pr2_best
        ELSE TXT_NA

\* fallback_rma(val, tn_details), a closure over tn_to_pr2
fallback_rma(m, val, tn_details) ==
    LET s == Strip(val)
        tns == _extract_tn_list(tn_details)
        pr2_best == DictGet(m, tns[1])
    IN  IF s # EMPTY /\ Upper(s) # TXT_NA /\ RMA_STRICT_RX(s) THEN s
        ELSE IF tn_details # EMPTY /\ tns # <<>> /\ RMA_STRICT_RX(pr2_best) THEN pr2_best
        ELSE TXT_NA

\* out[col] = values: the column is replaced, or appended when absent
SetColumn(df, col, values) ==
    [cols |-> IF col \in Range(df.cols) THEN df.cols ELSE Append(df.cols, col),
     rows |-> [k \in DOMAIN df.rows |->
                 [c \in Range(df.cols) \cup {col} |->
                     IF c = col THEN values[k] ELSE df.rows[k][c]]]]

\* patch_rma_na_with_pr2 that looks the row up by its 'Tracking Number' when
\* it has no 'Tracking Number - Details'
patch_rma_na_with_pr2_ByTrackingNumber(reconciled_df, new_norm_df) ==
    IF \/ IsNone(reconciled_df)
       \/ IsEmpty(reconciled_df)
       \/ IsNone(new_norm_df)
       \/ IsEmpty(new_norm_df)
    THEN reconciled_df
    ELSE LET m == tn_to_pr2(new_norm_df.rows, Len(new_norm_df.rows))
             details(r) == IF Get(r, "Tracking Number - Details") # EMPTY
                           THEN Get(r, "Tracking Number - Details")
                           ELSE Get(r, "Tracking Number")
         IN  SetColumn(reconciled_df, "RMA Number",
                 [k \in DOMAIN reconciled_df.rows |->
                     fallback_rma(m, Get(reconciled_df.rows[k], "RMA Number"),
                                  details(reconciled_df.rows[k]))])

\* patch_rma_na_with_pr2(reconciled_df, new_norm_df)
patch_rma_na_with_pr2(reconciled_df, new_norm_df) ==
    IF \/ IsNone(reconciled_df)
       \/ IsEmpty(reconciled_df)
       \/ IsNone(new_norm_df)
       \/ IsEmpty(new_norm_df)
    THEN reconciled_df
    ELSE LET m == tn_to_pr2(new_norm_df.rows, Len(new_norm_df.rows))
         IN  SetColumn(reconciled_df, "RMA Number",
                 [k \in DOMAIN reconciled_df.rows |->
                     fallback_rma(m, Get(reconciled_df.rows[k], "RMA Number"),
                                  Get(reconciled_df.rows[k], "Tracking Number - Details"))])

(***************************************************************************)
(* Final output builder                                                    *)
(***************************************************************************)
FINAL_COLS ==
    <<"Manifest Date", "RMA Number", "Tracking Number - Details", "Status",
      "Shipper Name", "Ship To", "Scheduled Delivery", "Date Delivered",
      "Exception Description", "Exception Resolution", "Weight">>

\* BlockedSet without original.upper()
BlockedSet_CaseSensitive(new_norm_df) ==
    {Strip(Get(new_norm_df.rows[k], "RMA Number")) :
        k \in {j \in DOMAIN new_norm_df.rows :
                 LET original == Strip(Get(new_norm_df.rows[j], "Original RMA"))
                     cleaned == Strip(Get(new_norm_df.rows[j], "RMA Number"))
                 IN  /\ original # EMPTY
                     /\ Contains(original, TXT_CONS_PICK_UP)
                     /\ RMA_STRICT_RX(cleaned)}}

\* the blocklist loop over new_norm_df.iterrows()
BlockedSet(new_norm_df) ==
    {Strip(Get(new_norm_df.rows[k], "RMA Number")) :
        k \in {j \in DOMAIN new_norm_df.rows :
                 LET original == Strip(Get(new_norm_df.rows[j], "Original RMA"))
                     cleaned == Strip(Get(new_norm_df.rows[j], "RMA Number"))
                 IN  /\ original # EMPTY
                     /\ Contains(Upper(original), TXT_CONS_PICK_UP)
                     /\ RMA_STRICT_RX(cleaned)}}

\* df.drop(columns=[col]) when the column is present
DropColumn(df, col) ==
    IF col \in Range(df.cols)
    THEN [cols |-> SelectSeq(df.cols, LAMBDA c : c # col),
          rows |-> [k \in DOMAIN df.rows |->
                      [c \in Range(df.cols) \ {col} |-> df.rows[k][c]]]]
    ELSE df

\* KeepStrict without the filter
KeepStrict_KeepAll(df) == df

\* KeepStrict with the pattern of the '6'-prefixed identifiers
KeepStrict_SixOnly(df) ==
    [df EXCEPT !.rows = SelectSeq(df.rows, LAMBDA r : RMA_PREF6_RX(r["RMA Number"]))]

\* df_out[df_out["RMA Number"].astype(str).str.fullmatch(r"\d{8}", na=False)]
KeepStrict(df) ==
    [df EXCEPT !.rows = SelectSeq(df.rows, LAMBDA r : RMA_STRICT_RX(r["RMA Number"]))]

\* RemoveBlocked without the filter
RemoveBlocked_Noop(df, blocked) == df

\* if blocked: df_out[~df_out["RMA Number"].isin(sorted(blocked))]
RemoveBlocked(df, blocked) ==
    IF blocked # {}
    THEN [df EXCEPT !.rows = SelectSeq(df.rows, LAMBDA r : r["RMA Number"] \notin blocked)]
    ELSE df

\* DropHelperColumns that also drops 'Tracking Number - Details'
DropHelperColumns_DetailsToo(df) ==
    DropColumn(DropColumn(DropColumn(DropColumn(df, "Tracking Number"),
                                     "Tracking Number - Details"),
                          "Ship To Location"),
               "Original RMA")

\* the loop over the helper columns to drop
DropHelperColumns(df) ==
    DropColumn(DropColumn(DropColumn(df, "Tracking Number"), "Ship To Location"),
               "Original RMA")

\* df_out[FINAL_COLS] after the missing final columns were added as ""
ProjectFinal(df) ==
    [cols |-> FINAL_COLS,
     rows |-> [k \in DOMAIN df.rows |->
                 [c \in Range(FINAL_COLS) |-> Get(df.rows[k], c)]]]

\* the blocklist loop inside try/except: an absent table gives no identifier
Blocked(new_norm_df) ==
    IF IsNone(new_norm_df) THEN {} ELSE BlockedSet(new_norm_df)

\* build_final_output_df(reconciled_df, new_norm_df); None.copy() and
\* df_out["RMA Number"] of a table without that column raise
build_final_output_df(reconciled_df, new_norm_df) ==
    LET df_out == patch_rma_na_with_pr2(reconciled_df, new_norm_df)
        blocked == Blocked(new_norm_df)
        cleaned == normalize_rma_column_inplace(DropHelperColumns(df_out))
    IN  IF IsNone(df_out) THEN AttributeError
        ELSE IF "RMA Number" \notin Range(cleaned.cols) THEN KeyError
        ELSE ProjectFinal(RemoveBlocked(KeepStrict(cleaned), blocked))

(***************************************************************************)
(* The calls on objects.  A heap is a sequence of tables and an object is  *)
(* an index into it: an assignment to a column changes the object it is    *)
(* made on, while rename, copy, drop and boolean indexing return a new     *)
(* object.  A call returns the heap after it and the object it returned.   *)
(***************************************************************************)
Alloc(h, t) == [heap |-> Append(h, t), ref |-> Len(h) + 1]

Store(h, ref, t) == [h EXCEPT ![ref] = t]

\* df.copy()
Copy(h, ref) == Alloc(h, h[ref])

\* for c in FINAL_COLS: if c not in df_out.columns: df_out[c] = ""
EnsureFinalCols(df) ==
    [cols |-> df.cols \o SelectSeq(FINAL_COLS, LAMBDA c : c \notin Range(df.cols)),
     rows |-> [k \in DOMAIN df.rows |->
                 [c \in Range(df.cols) \cup Range(FINAL_COLS) |-> Get(df.rows[k], c)]]]

\* build_new_norm: rename returns a new table, the missing columns are set
\* in it, and the rows are collected into a new table
Obj_build_new_norm(h, new_df) ==
    LET renamed == Alloc(h, h[new_df])
        mapped == Store(renamed.heap, renamed.ref, map_new_columns(h[new_df]))
    IN  Alloc(mapped, build_new_norm(h[new_df]))

\* patch_rma_na_with_pr2 that sets the column in reconciled_df itself
Obj_patch_rma_na_with_pr2_NoCopy(h, reconciled_df, new_norm_df) ==
    IF \/ IsNone(h[reconciled_df])
       \/ IsEmpty(h[reconciled_df])
       \/ IsNone(h[new_norm_df])
       \/ IsEmpty(h[new_norm_df])
    THEN [heap |-> h, ref |-> reconciled_df]
    ELSE [heap |-> Store(h, reconciled_df,
                         patch_rma_na_with_pr2(h[reconciled_df], h[new_norm_df])),
          ref |-> reconciled_df]

\* patch_rma_na_with_pr2: the no-op returns reconciled_df itself, otherwise
\* the column is set in out = reconciled_df.copy()
Obj_patch_rma_na_with_pr2(h, reconciled_df, new_norm_df) ==
    IF \/ IsNone(h[reconciled_df])
       \/ IsEmpty(h[reconciled_df])
       \/ IsNone(h[new_norm_df])
       \/ IsEmpty(h[new_norm_df])
    THEN [heap |-> h, ref |-> reconciled_df]
    ELSE LET out == Copy(h, reconciled_df)
         IN  [heap |-> Store(out.heap, out.ref,
                             patch_rma_na_with_pr2(h[reconciled_df], h[new_norm_df])),
              ref |-> out.ref]

\* the helper columns are dropped one by one: drop returns a new table, and
\* df_out stays the same object when it has none of them
DropHelpers(h, df_out) ==
    IF Range(h[df_out].cols) \cap {"Tracking Number", "Ship To Location", "Original RMA"} = {}
    THEN [heap |-> h, ref |-> df_out]
    ELSE Alloc(h, DropHelperColumns(h[df_out]))

\* the steps of build_final_output_df after df_out is bound (lines 519-553)
FinishFinal(h, df_out, new_norm_df) ==
    LET blocked == Blocked(h[new_norm_df])
        dropped == DropHelpers(h, df_out)
        cleaned == Store(dropped.heap, dropped.ref,
                         normalize_rma_column_inplace(dropped.heap[dropped.ref]))
    IN  IF "RMA Number" \notin Range(cleaned[dropped.ref].cols)
        THEN Alloc(cleaned, KeyError)
        ELSE LET kept == Alloc(cleaned,
                               RemoveBlocked(KeepStrict(cleaned[dropped.ref]), blocked))
                 filled == Store(kept.heap, kept.ref, EnsureFinalCols(kept.heap[kept.ref]))
             IN  Alloc(filled, ProjectFinal(filled[kept.ref]))

\* build_final_output_df without the .copy() of the patched table
Obj_build_final_output_df_NoCopy(h, reconciled_df, new_norm_df) ==
    LET p == Obj_patch_rma_na_with_pr2(h, reconciled_df, new_norm_df)
    IN  IF IsNone(p.heap[p.ref]) THEN Alloc(p.heap, AttributeError)
        ELSE FinishFinal(p.heap, p.ref, new_norm_df)

\* build_final_output_df: df_out is a copy of the patched table
Obj_build_final_output_df(h, reconciled_df, new_norm_df) ==
    LET p == Obj_patch_rma_na_with_pr2(h, reconciled_df, new_norm_df)
    IN  IF IsNone(p.heap[p.ref]) THEN Alloc(p.heap, AttributeError)
        ELSE LET df_out == Copy(p.heap, p.ref)
             IN  FinishFinal(df_out.heap, df_out.ref, new_norm_df)

(***************************************************************************)
(* Inputs: the cell texts, records and tables the model runs the engine on *)
(***************************************************************************)
IN_rma_free == <<"R", "M", "A", " ", "6", "7", "0", "2", "4", "8", "1", "4">>

IN_rma_three == <<"9", "1", "2", "3", "4", "5", "6", "7", " ", "7", "1", "2", "3", "4", "5", "6", "7", "/", "6", "7", "0", "2", "4", "8", "1", "4">>

IN_rma_twice == <<"6", "7", "0", "2", "4", "8", "1", "4", ",", " ", "6", "7", "0", "2", "4", "8", "1", "4">>

IN_rma_nine == <<"R", "M", "A", " ", "1", "2", "3", "4", "5", "6", "7", "8", "9">>

IN_rma_cons == <<"c", "o", "n", "s", " ", "p", "i", "c", "k", " ", "u", "p", " ", "7", "1", "2", "3", "4", "5", "6", "7">>

IN_rma_strict9 == <<"9", "1", "2", "3", "4", "5", "6", "7">>

IN_x == <<"x">>

IN_blank == <<" ", " ">>

IN_tn_a == <<"1", "Z", "1", "2", "3", "4", "5", "6", "7", "8", "9", "0", "1", "2", "3", "4", "5", "6">>

IN_tn_a_padded == <<" ", "1", "z", "1", "2", "3", "4", "5", "6", "7", "8", "9", "0", "1", "2", "3", "4", "5", "6", " ">>

IN_tn_with_token == <<"1", "Z", "A", "B", "C", "D", "E", "F", "G", "H", "6", "7", "0", "2", "4", "8", "1", "4">>

IN_tn_b == <<"1", "Z", "B", "2", "3", "4", "5", "6", "7", "8", "9", "0", "1", "2", "3", "4", "5", "6">>

IN_det_two == <<"1", "z", "b", "2", "3", "4", "5", "6", "7", "8", "9", "0", "1", "2", "3", "4", "5", "6", " ", "-", " ", "D", "e", "l", "i", "v", "e", "r", "e", "d", ";", " ", "1", "Z", "1", "2", "3", "4", "5", "6", "7", "8", "9", "0", "1", "2", "3", "4", "5", "6">>

IN_det_b == <<"1", "z", "b", "2", "3", "4", "5", "6", "7", "8", "9", "0", "1", "2", "3", "4", "5", "6", " ", "-", " ", "D", "e", "l", "i", "v", "e", "r", "e", "d">>

IN_det_a == <<"1", "Z", "1", "2", "3", "4", "5", "6", "7", "8", "9", "0", "1", "2", "3", "4", "5", "6", " ", "-", " ", "I", "n", " ", "T", "r", "a", "n", "s", "i", "t">>

IN_det_long == <<"s", "e", "e", " ", "1", "Z", "1", "2", "3", "4", "5", "6", "7", "8", "9", "0", "1", "2", "3", "4", "5", "6", "7">>

IN_det_none == <<"n", "o", " ", "t", "r", "a", "c", "k", "i", "n", "g">>

IN_pr2_six == <<"P", "R", "2", ":", " ", "6", "0", "0", "1", "1", "2", "2", "3", " ", "m", "i", "s", "c">>

IN_pr2_two == <<"9", "1", "2", "3", "4", "5", "6", "7", " ", "6", "7", "0", "2", "4", "8", "1", "4", ".", "0">>

IN_pr2_seven == <<"7", "1", "2", "3", "4", "5", "6", "7", " ", "x">>

IN_status_transit == <<"I", "n", " ", "T", "r", "a", "n", "s", "i", "t">>

IN_status_mixed == <<" ", "D", "E", "L", "I", "V", "E", "R", "E", "D", " ", "a", "f", "t", "e", "r", " ", "e", "x", "c", "e", "p", "t", "i", "o", "n">>

IN_shipto_token == <<"R", "o", "c", "k", "w", "e", "l", "l", " ", "9", "1", "2", "3", "4", "5", "6", "7">>

IN_shipto_cons == <<"C", "o", "n", "s", " ", "P", "i", "c", "k", " ", "U", "p", " ", "6", "0", "0", "1", "1", "2", "2", "3">>

IN_notes == <<"r", "e", "f", " ", "9", "1", "2", "3", "4", "5", "6", "7">>

IN_date == <<"2", "0", "2", "4", "-", "0", "1", "-", "1", "0">>

IN_id_7 == <<"7", "1", "2", "3", "4", "5", "6", "7">>

IN_id_padded == <<" ", "6", "7", "0", "2", "4", "8", "1", "4", " ">>

IN_id_free == <<"R", "M", "A", " ", "6", "0", "0", "1", "1", "2", "2", "3">>

\* the header of a raw table with canonical names, some canonical columns absent
RawColsA ==
    <<"RMA Number", "Tracking Number", "Tracking Number - Details", "Status",
      "Ship To", "Package Reference No. 2">>

\* the header of a raw table with header variants and a column the mapping ignores
RawColsB == <<"Notes", "TRACKING NUMBER ", " ship to", "RMA Number">>

RecA(rma, tn, det, status, shipto, pr2) ==
    [c \in Range(RawColsA) |->
        CASE c = "RMA Number" -> rma
          [] c = "Tracking Number" -> tn
          [] c = "Tracking Number - Details" -> det
          [] c = "Status" -> status
          [] c = "Ship To" -> shipto
          [] c = "Package Reference No. 2" -> pr2]

RecB(notes, tn, shipto, rma) ==
    [c \in Range(RawColsB) |->
        CASE c = "Notes" -> notes
          [] c = "TRACKING NUMBER " -> tn
          [] c = " ship to" -> shipto
          [] c = "RMA Number" -> rma]

\* the header of a raw table with neither 'Tracking Number' nor 'RMA Number'
\* nor 'Package Reference No. 2'
RawColsC == <<"Ship To", "Tracking Number - Details">>

RecC(shipto, det) ==
    [c \in Range(RawColsC) |->
        CASE c = "Ship To" -> shipto
          [] c = "Tracking Number - Details" -> det]

\* the header of a raw table with none of the canonical columns
RawColsD == <<"Notes">>

RecD(notes) == [c \in Range(RawColsD) |-> notes]

RmaTexts ==
    {EMPTY, TXT_NA, IN_rma_free, IN_rma_three, IN_rma_twice, IN_rma_nine, IN_rma_cons}

TnTexts == {EMPTY, IN_blank, IN_tn_a_padded, IN_tn_with_token}

DetailTexts == {EMPTY, IN_det_two, IN_det_long}

Pr2Texts == {EMPTY, IN_pr2_six, IN_pr2_two}

StatusTexts == {IN_status_transit, IN_status_mixed}

ShipToTexts == {EMPTY, IN_shipto_token}

\* every combination of the field texts, as one-record tables
RawRecordsA ==
    {RecA(rma, tn, det, status, shipto, pr2) :
        rma \in RmaTexts, tn \in TnTexts, det \in DetailTexts,
        status \in StatusTexts, shipto \in ShipToTexts, pr2 \in Pr2Texts}

RawRecordsB ==
    {RecB(notes, tn, shipto, rma) :
        notes \in {EMPTY, IN_notes, IN_pr2_six}, tn \in {EMPTY, IN_tn_a_padded},
        shipto \in {IN_shipto_cons}, rma \in {IN_rma_free, TXT_NA}}

RawRecordsC ==
    {RecC(shipto, det) :
        shipto \in {IN_shipto_token, IN_shipto_cons},
        det \in {EMPTY, IN_det_b, IN_det_two}}

\* the records of the raw tables of the pipeline: a record whose token is in
\* a CONS PICK UP text and whose secondary reference has a token, a record
\* whose tracking number comes from the details, and a record with no token
CoreRecords ==
    {RecA(IN_rma_cons, IN_tn_a_padded, EMPTY, IN_status_transit, EMPTY, IN_pr2_six),
     RecA(TXT_NA, EMPTY, IN_det_b, IN_status_mixed, EMPTY, IN_pr2_seven),
     RecA(Lower(TXT_CONS_PICK_UP), IN_tn_a, EMPTY, IN_status_transit, EMPTY, EMPTY)}

\* a record with no tracking number
SkippedRecord ==
    RecA(IN_rma_strict9, IN_blank, IN_det_none, IN_status_transit, EMPTY, EMPTY)

MaxRecords == 2

MaxMain == 2

SeqsUpTo(S, n) == UNION {[1..k -> S] : k \in 0..n}

Table(cols, rows) == [cols |-> cols, rows |-> rows]

\* the header of the main (reconciled) tables
MainCols ==
    <<"Manifest Date", "RMA Number", "Tracking Number - Details", "Status",
      "Tracking Number">>

MainRow(rma, det) ==
    [c \in Range(MainCols) |->
        CASE c = "Manifest Date" -> IN_date
          [] c = "RMA Number" -> rma
          [] c = "Tracking Number - Details" -> det
          [] c = "Status" -> TXT_Delivered
          [] c = "Tracking Number" -> EMPTY]

MainRows ==
    {MainRow(TXT_NA, IN_det_a),
     MainRow(EMPTY, IN_det_two),
     MainRow(IN_x, EMPTY),
     MainRow(IN_id_7, IN_det_a),
     MainRow(IN_id_free, IN_det_none),
     MainRow(IN_id_padded, IN_det_b)}

\* the raw tables of the pipeline
CoreTables == {Table(RawColsA, rs) : rs \in SeqsUpTo(CoreRecords, MaxRecords)}

\* the main (reconciled) tables of the pipeline
MainTables == {Table(MainCols, ms) : ms \in SeqsUpTo(MainRows, MaxMain)}

\* the raw tables the Row Expander alone is run on: every combination of the
\* field texts as a one-record table, and the tables of several records
RawTables ==
    {Table(RawColsA, <<r>>) : r \in RawRecordsA}
    \cup {Table(RawColsB, <<r>>) : r \in RawRecordsB}
    \cup {Table(RawColsC, <<r>>) : r \in RawRecordsC}
    \cup {Table(RawColsD, <<RecD(IN_notes)>>), Table(<<>>, <<>>)}
    \cup {Table(RawColsA, rs) : rs \in SeqsUpTo(CoreRecords \cup {SkippedRecord}, MaxRecords)}

(***************************************************************************)
(* The state machine: the calls of the engine, in the order the            *)
(* application makes them                                                  *)
(***************************************************************************)
NoTable == Table(<<>>, <<>>)

Init ==
    /\ raw \in CoreTables
    /\ main = NoTable
    /\ norm = NoTable
    /\ patched = NoTable
    /\ final = NoTable
    /\ pc = "start"
    /\ arg = <<>>
    /\ ret = <<>>

\* new_norm_df = build_new_norm(ups_df)
BuildNewNorm ==
    /\ pc = "start"
    /\ norm' = build_new_norm(raw)
    /\ pc' = "normalized"
    /\ UNCHANGED <<raw, main, patched, final, arg, ret>>

\* patch_rma_na_with_pr2(reconciled_df, new_norm_df), reconciled_df an input
PatchRmaNaWithPr2 ==
    /\ pc = "normalized"
    /\ \E reconciled_df \in MainTables :
          /\ main' = reconciled_df
          /\ patched' = patch_rma_na_with_pr2(reconciled_df, norm)
    /\ pc' = "patched"
    /\ UNCHANGED <<raw, norm, final, arg, ret>>

\* build_final_output_df(reconciled_df, new_norm_df)
BuildFinalOutputDf ==
    /\ pc = "patched"
    /\ final' = build_final_output_df(main, norm)
    /\ pc' = "final"
    /\ UNCHANGED <<raw, main, norm, patched, arg, ret>>

Next == BuildNewNorm \/ PatchRmaNaWithPr2 \/ BuildFinalOutputDf

\* the pipeline: the Row Expander, the Fallback Patcher, the Output Filter
Spec == Init /\ [][Next]_vars

InitNorm ==
    /\ raw \in RawTables
    /\ main = NoTable
    /\ norm = NoTable
    /\ patched = NoTable
    /\ final = NoTable
    /\ pc = "start"
    /\ arg = <<>>
    /\ ret = <<>>

NextNorm == BuildNewNorm

\* the Row Expander alone, on the wider set of raw tables
SpecNorm == InitNorm /\ [][NextNorm]_vars

\* rma_analysis_df = build_final_output_df(new_norm_df, new_norm_df)
RunAnalysis ==
    /\ pc = "normalized"
    /\ main' = norm
    /\ patched' = patch_rma_na_with_pr2(norm, norm)
    /\ final' = build_final_output_df(norm, norm)
    /\ pc' = "final"
    /\ UNCHANGED <<raw, norm, arg, ret>>

NextApp == BuildNewNorm \/ RunAnalysis

\* the application: the normalized table is passed as both arguments of
\* build_final_output_df
SpecApp == InitNorm /\ [][NextApp]_vars

(***************************************************************************)
(* Direct calls of the helpers, on texts and candidate lists               *)
(***************************************************************************)
MaxText == 10

MaxCandidates == 3

\* a text with a run of nine digits and the same token twice
IN_text_runs == IN_rma_nine \o <<" ">> \o IN_rma_twice

\* a text with a run of eight digits and a run of nine that begins with the
\* same eight
IN_text_prefix == SubSeq(IN_rma_nine, 5, 12) \o <<" ">> \o SubSeq(IN_rma_nine, 5, 13)

\* every text of a digit and a separator up to MaxText characters, and the
\* texts of the fields of the raw tables
Texts ==
    UNION {[1..k -> {"6", "-"}] : k \in 0..MaxText}
    \cup RmaTexts \cup Pr2Texts \cup ShipToTexts
    \cup {IN_pr2_seven, IN_text_runs, IN_text_prefix, SubSeq(IN_rma_three, 1, 17)}

\* the candidates: tokens of each prefix class, a padded token, a run of
\* nine digits and a text with no digit
CandidateTexts ==
    {SubSeq(IN_pr2_six, 6, 13), Strip(IN_id_padded), IN_id_7, IN_rma_strict9,
     IN_id_padded, SubSeq(IN_rma_nine, 5, 13), IN_x}

CandidateLists == SeqsUpTo(CandidateTexts, MaxCandidates)

\* the status texts: one phrase or two, in lower or upper case, padded; the
\* phrases are the keywords of _canonical_status, a text with none of them
\* and the empty text
StatusCallTexts ==
    LET phrases == {TXT_delivered, TXT_exception, TXT_in_transit,
                    TXT_out_for_delivery, TXT_out_of_delivery, TXT_manifest,
                    TXT_void, TXT_not_avail, IN_x, EMPTY}
    IN  {x \o <<" ">> \o y : x \in phrases, y \in phrases}
        \cup {<<" ">> \o Upper(x) \o <<" ">> \o y : x \in phrases, y \in phrases}
        \cup phrases \cup StatusTexts

MaxColumn == 2

\* the tables with an 'RMA Number' column of up to MaxColumn values, and a
\* table without the column; the values are tokens of each prefix class,
\* texts with several tokens, with a trailing ".0", with none, padded or empty
ColumnTables ==
    LET values == {SubSeq(IN_pr2_six, 6, 13), IN_id_7, IN_rma_strict9, IN_rma_three,
                   IN_pr2_two, IN_id_padded, IN_rma_nine, IN_rma_free, TXT_NA,
                   EMPTY, IN_x, SubSeq(IN_rma_three, 1, 17)}
    IN  {Table(<<"RMA Number">>, rows) :
            rows \in SeqsUpTo({[c \in {"RMA Number"} |-> v] : v \in values}, MaxColumn)}
        \cup {Table(<<"Status">>, <<[c \in {"Status"} |-> IN_rma_free]>>)}

InitHelpers ==
    /\ raw = NoTable
    /\ main = NoTable
    /\ norm = NoTable
    /\ patched = NoTable
    /\ final = NoTable
    /\ pc = "start"
    /\ arg \in {[text |-> t] : t \in Texts}
               \cup {[candidates |-> l] : l \in CandidateLists}
               \cup {[status |-> t] : t \in StatusCallTexts}
               \cup {[value |-> t] : t \in Texts}
               \cup {[df |-> t] : t \in ColumnTables}
    /\ ret = <<>>

\* RMA_ANY8_IN_TEXT_RX.findall(text)
CallFindall ==
    /\ pc = "start"
    /\ "text" \in DOMAIN arg
    /\ ret' = RMA_ANY8_IN_TEXT_RX(arg.text)
    /\ pc' = "returned"
    /\ UNCHANGED <<raw, main, norm, patched, final, arg>>

\* _pick_best_rma(candidates)
CallPickBestRma ==
    /\ pc = "start"
    /\ "candidates" \in DOMAIN arg
    /\ ret' = _pick_best_rma(arg.candidates)
    /\ pc' = "returned"
    /\ UNCHANGED <<raw, main, norm, patched, final, arg>>

\* _canonical_status(value)
CallCanonicalStatus ==
    /\ pc = "start"
    /\ "status" \in DOMAIN arg
    /\ ret' = _canonical_status(arg.status)
    /\ pc' = "returned"
    /\ UNCHANGED <<raw, main, norm, patched, final, arg>>

\* _clean_rma_string(value)
CallCleanRmaString ==
    /\ pc = "start"
    /\ "value" \in DOMAIN arg
    /\ ret' = _clean_rma_string(arg.value)
    /\ pc' = "returned"
    /\ UNCHANGED <<raw, main, norm, patched, final, arg>>

\* normalize_rma_column_inplace(df)
CallNormalizeRmaColumn ==
    /\ pc = "start"
    /\ "df" \in DOMAIN arg
    /\ ret' = normalize_rma_column_inplace(arg.df)
    /\ pc' = "returned"
    /\ UNCHANGED <<raw, main, norm, patched, final, arg>>

NextHelpers ==
    \/ CallFindall
    \/ CallPickBestRma
    \/ CallCanonicalStatus
    \/ CallCleanRmaString
    \/ CallNormalizeRmaColumn

\* the helpers alone, each called once on an argument
SpecHelpers == InitHelpers /\ [][NextHelpers]_vars

(***************************************************************************)
(* Direct calls of the three stages on tables of any shape: empty, with    *)
(* columns missing, absent, or the same object as both arguments           *)
(***************************************************************************)
\* the header of a main table with no helper column and a column of its own
PlainCols == <<"RMA Number", "Tracking Number - Details", "Carrier">>

PlainRow(rma, det) ==
    [c \in Range(PlainCols) |->
        CASE c = "RMA Number" -> rma
          [] c = "Tracking Number - Details" -> det
          [] c = "Carrier" -> IN_x]

\* the header of a main table without 'RMA Number'
BareCols == <<"Status", "Tracking Number - Details">>

BareRow(det) ==
    [c \in Range(BareCols) |->
        CASE c = "Status" -> TXT_Delivered
          [] c = "Tracking Number - Details" -> det]

\* the normalized tables of the direct calls: of no record and of one record
CallNorms ==
    {None, NoTable}
    \cup {build_new_norm(Table(RawColsA, rs)) : rs \in SeqsUpTo(CoreRecords, 1)}

\* the main tables of the direct calls
CallMains ==
    CallNorms
    \cup {Table(MainCols, <<>>), Table(BareCols, <<>>),
          Table(BareCols, <<BareRow(IN_det_a)>>),
          Table(PlainCols, <<PlainRow(IN_id_padded, IN_det_a)>>),
          Table(PlainCols, <<PlainRow(IN_id_padded, IN_det_a), PlainRow(TXT_NA, IN_det_b)>>),
          Table(MainCols, <<MainRow(EMPTY, IN_det_two), MainRow(IN_id_7, IN_det_a)>>)}
    \cup {Table(MainCols, <<r>>) : r \in MainRows}

\* the raw tables of the direct calls
CallRaws ==
    CoreTables
    \cup {NoTable, Table(RawColsD, <<RecD(IN_notes)>>),
          Table(RawColsC, <<RecC(IN_shipto_token, IN_det_b)>>),
          Table(RawColsB, <<RecB(IN_notes, IN_tn_a_padded, IN_shipto_cons, TXT_NA)>>)}

InitCalls ==
    /\ \/ raw \in CallRaws /\ main = NoTable /\ norm = NoTable
       \/ raw = NoTable /\ main \in CallMains /\ norm \in CallNorms
    /\ patched = NoTable
    /\ final = NoTable
    /\ pc = "start"
    /\ arg = <<>>
    /\ ret = <<>>

\* the arguments of a call as they are when it is made
Args(call, same) ==
    [call |-> call, same |-> same, raw |-> raw, main |-> main, norm |-> norm]

\* build_new_norm(raw): raw is the caller's table after the call
CallBuildNewNorm ==
    /\ pc = "start"
    /\ LET r == Obj_build_new_norm(<<raw>>, 1)
       IN  /\ raw' = r.heap[1]
           /\ ret' = r.heap[r.ref]
    /\ arg' = Args("build_new_norm", FALSE)
    /\ pc' = "returned"
    /\ UNCHANGED <<main, norm, patched, final>>

\* patch_rma_na_with_pr2(main, norm), norm the same object as main or not
CallPatch ==
    /\ pc = "start"
    /\ \E same \in BOOLEAN :
          /\ same => main = norm
          /\ LET h == IF same THEN <<main>> ELSE <<main, norm>>
                 n == IF same THEN 1 ELSE 2
                 r == Obj_patch_rma_na_with_pr2(h, 1, n)
             IN  /\ main' = r.heap[1]
                 /\ norm' = r.heap[n]
                 /\ ret' = r.heap[r.ref]
          /\ arg' = Args("patch_rma_na_with_pr2", same)
    /\ pc' = "returned"
    /\ UNCHANGED <<raw, patched, final>>

\* build_final_output_df(main, norm), norm the same object as main or not
CallBuildFinal ==
    /\ pc = "start"
    /\ \E same \in BOOLEAN :
          /\ same => main = norm
          /\ LET h == IF same THEN <<main>> ELSE <<main, norm>>
                 n == IF same THEN 1 ELSE 2
                 r == Obj_build_final_output_df(h, 1, n)
             IN  /\ main' = r.heap[1]
                 /\ norm' = r.heap[n]
                 /\ ret' = r.heap[r.ref]
          /\ arg' = Args("build_final_output_df", same)
    /\ pc' = "returned"
    /\ UNCHANGED <<raw, patched, final>>

NextCalls == CallBuildNewNorm \/ CallPatch \/ CallBuildFinal

\* each stage alone, called once on its arguments
SpecCalls == InitCalls /\ [][NextCalls]_vars

(***************************************************************************)
(* The vocabulary of the properties.  These definitions restate what the   *)
(* specification says of a record; they do not use the operators above     *)
(* that model the functions of the code, except the regular expressions.   *)
(***************************************************************************)
\* the raw records with their canonical field names
Records == map_new_columns(raw).rows

Field(r, col) == IF col \in DOMAIN r THEN r[col] ELSE EMPTY

IsEightDigits(s) == Len(s) = 8 /\ \A i \in DOMAIN s : s[i] \in Digits

\* the places (field, position) of the 8-digit tokens of a record
TokenPlaces(r) ==
    UNION {{<<c, i>> : i \in {j \in DOMAIN r[c] : Any8At(r[c], j)}} : c \in DOMAIN r}

\* the distinct 8-digit tokens found across all fields of a record
DistinctTokens(r) == {SubSeq(r[ci[1]], ci[2], ci[2] + 7) : ci \in TokenPlaces(r)}

\* the number of occurrences of 8-digit tokens in the fields of a record
TokenOccurrences(r) == Cardinality(TokenPlaces(r))

HasTn(s) == \E i \in DOMAIN s : TnAt(s, i)

\* the first 1Z tracking number occurring in a text, upper-cased
FirstTn(s) ==
    LET i == CHOOSE j \in DOMAIN s : TnAt(s, j) /\ \A k \in 1..(j - 1) : ~TnAt(s, k)
    IN  Upper(SubSeq(s, i, i + 17))

NonBlank(s) == \E i \in DOMAIN s : s[i] \notin WhiteSpace

\* a record's tracking number is resolvable
Resolvable(r) ==
    NonBlank(Field(r, "Tracking Number")) \/ HasTn(Field(r, "Tracking Number - Details"))

Max(a, b) == IF a >= b THEN a ELSE b

\* the number of normalized rows the specification promises for a record
RowCount(r) ==
    IF Resolvable(r) THEN Max(1, Cardinality(DistinctTokens(r))) ELSE 0

\* the number of rows promised for the first n records
RECURSIVE RowsBefore(_, _)
RowsBefore(recs, n) == IF n = 0 THEN 0 ELSE RowsBefore(recs, n - 1) + RowCount(recs[n])

\* the normalized rows at the positions of record k, when the row counts are right
RowsAt(recs, k) ==
    SubSeq(norm.rows, RowsBefore(recs, k - 1) + 1, RowsBefore(recs, k))

Ids(rows) == [i \in DOMAIN rows |-> rows[i]["RMA Number"]]

Normalized == pc = "normalized"

(***************************************************************************)
(* C1  build_new_norm emits, for every record whose tracking number is     *)
(* resolvable, max(1, d) rows, d the number of distinct 8-digit tokens in  *)
(* the fields of the record: one row per distinct token (its identifiers   *)
(* are those tokens, no identifier twice), or one row with the empty       *)
(* identifier when there is no token.                                      *)
(***************************************************************************)
C1_RowCount ==
    Normalized =>
        LET recs == Records
        IN  /\ Len(norm.rows) = RowsBefore(recs, Len(recs))
            /\ \A k \in DOMAIN recs :
                  Resolvable(recs[k]) =>
                     LET tokens == DistinctTokens(recs[k])
                         ids == Ids(RowsAt(recs, k))
                     IN  /\ Len(ids) = Max(1, Cardinality(tokens))
                         /\ \A i, j \in DOMAIN ids : i # j => ids[i] # ids[j]
                         /\ Range(ids) = IF tokens = {} THEN {EMPTY} ELSE tokens

\* a record with two distinct tokens, one of them occurring more than once
C1_Witness ==
    /\ Normalized
    /\ LET recs == Records
       IN  \E k \in DOMAIN recs :
              /\ Resolvable(recs[k])
              /\ Cardinality(DistinctTokens(recs[k])) = 2
              /\ TokenOccurrences(recs[k]) > 3
              /\ Len(RowsAt(recs, k)) = 2

\* the raw rows whose record is resolvable, in order
ResolvableRows ==
    LET recs == Records
        idx == {k \in DOMAIN recs : Resolvable(recs[k])}
    IN  [n \in 1..Cardinality(idx) |->
            raw.rows[CHOOSE k \in idx : Cardinality({j \in idx : j < k}) = n - 1]]

(***************************************************************************)
(* C7  A record with a blank 'Tracking Number' and no 1Z tracking number   *)
(* in 'Tracking Number - Details' contributes no row, and the rows of the  *)
(* other records are the rows build_new_norm emits for the table without   *)
(* the skipped records.                                                    *)
(***************************************************************************)
C7_SkippedRecord ==
    Normalized =>
        /\ norm = build_new_norm(Table(raw.cols, ResolvableRows))
        /\ ResolvableRows = <<>> => norm.rows = <<>>

\* a table with a skipped record beside a record that emits rows
C7_Witness ==
    /\ Normalized
    /\ ResolvableRows # <<>>
    /\ Len(ResolvableRows) < Len(raw.rows)
    /\ Len(norm.rows) >= 1

\* the canonical status of the status texts of the raw tables
ExpectedStatus(s) ==
    CASE s = IN_status_transit -> TXT_In_Transit
      [] s = IN_status_mixed -> TXT_Delivered
      [] s = EMPTY -> TXT_NA

\* the only 8-digit run of the record is in free text of the 'RMA Number' field
OnlyTokenInRmaText(r) ==
    /\ NonBlank(Field(r, "Tracking Number"))
    /\ TokenOccurrences(r) = 1
    /\ \A ci \in TokenPlaces(r) : ci[1] = "RMA Number"
    /\ ~IsEightDigits(Field(r, "RMA Number"))

(***************************************************************************)
(* C8 as stated  Such a record gives exactly one row, whose 'RMA Number'   *)
(* is the token, whose 'Tracking Number' is the field value upper-cased    *)
(* and whose 'Status' is the canonical status.                             *)
(***************************************************************************)
C8_AsStated ==
    Normalized =>
        LET recs == Records
        IN  /\ Len(norm.rows) = RowsBefore(recs, Len(recs))
            /\ \A k \in DOMAIN recs :
                  OnlyTokenInRmaText(recs[k]) =>
                     LET rows == RowsAt(recs, k)
                     IN  /\ Len(rows) = 1
                         /\ {rows[1]["RMA Number"]} = DistinctTokens(recs[k])
                         /\ rows[1]["Tracking Number"] = Upper(Field(recs[k], "Tracking Number"))
                         /\ rows[1]["Status"] = ExpectedStatus(Field(recs[k], "Status"))

(***************************************************************************)
(* C8 amended  Such a record gives exactly one row, whose 'RMA Number' is  *)
(* the token, whose 'Tracking Number' is the field value trimmed and       *)
(* upper-cased and whose 'Status' is the canonical status.                 *)
(***************************************************************************)
C8_SingleToken ==
    Normalized =>
        LET recs == Records
        IN  /\ Len(norm.rows) = RowsBefore(recs, Len(recs))
            /\ \A k \in DOMAIN recs :
                  OnlyTokenInRmaText(recs[k]) =>
                     LET rows == RowsAt(recs, k)
                     IN  /\ Len(rows) = 1
                         /\ {rows[1]["RMA Number"]} = DistinctTokens(recs[k])
                         /\ rows[1]["Tracking Number"] =
                               Upper(Strip(Field(recs[k], "Tracking Number")))
                         /\ rows[1]["Status"] = ExpectedStatus(Field(recs[k], "Status"))

\* the record of the test, its tracking number in lower case and padded
C8_Witness ==
    /\ Normalized
    /\ LET recs == Records
       IN  \E k \in DOMAIN recs :
              /\ OnlyTokenInRmaText(recs[k])
              /\ Field(recs[k], "RMA Number") = IN_rma_free
              /\ Field(recs[k], "Tracking Number") = IN_tn_a_padded
              /\ Field(recs[k], "Status") = IN_status_transit
              /\ RowsAt(recs, k)[1]["RMA Number"] = SubSeq(IN_rma_free, 5, 12)
              /\ RowsAt(recs, k)[1]["Tracking Number"] = IN_tn_a
              /\ RowsAt(recs, k)[1]["Status"] = IN_status_transit

(***************************************************************************)
(* C9  Every row emitted for a record carries the trimmed, upper-cased     *)
(* 'Tracking Number' field when that field is non-blank, whatever the      *)
(* details say, and otherwise the upper-cased first 1Z tracking number of  *)
(* 'Tracking Number - Details'; so all rows of a record carry the same     *)
(* tracking number.                                                        *)
(***************************************************************************)
C9_TrackingNumber ==
    Normalized =>
        LET recs == Records
        IN  /\ Len(norm.rows) = RowsBefore(recs, Len(recs))
            /\ \A k \in DOMAIN recs :
                  LET rows == RowsAt(recs, k)
                      tn == IF NonBlank(Field(recs[k], "Tracking Number"))
                            THEN Upper(Strip(Field(recs[k], "Tracking Number")))
                            ELSE FirstTn(Field(recs[k], "Tracking Number - Details"))
                  IN  \A i \in DOMAIN rows : rows[i]["Tracking Number"] = tn

\* a whitespace-only field, details with two different tracking numbers,
\* and several rows for the record
C9_Witness ==
    /\ Normalized
    /\ LET recs == Records
       IN  \E k \in DOMAIN recs :
              /\ Field(recs[k], "Tracking Number") # EMPTY
              /\ ~NonBlank(Field(recs[k], "Tracking Number"))
              /\ Field(recs[k], "Tracking Number - Details") = IN_det_two
              /\ Len(RowsAt(recs, k)) >= 2
              /\ \A i \in DOMAIN RowsAt(recs, k) :
                    RowsAt(recs, k)[i]["Tracking Number"] = IN_tn_b

\* the 8-digit tokens of a record, field by field in column order, with repeats
Pool(cols, r) == Flatten([i \in DOMAIN cols |-> RMA_ANY8_IN_TEXT_RX(r[cols[i]])])

\* the elements of s at the indices idx, in increasing order of index
AtIndices(s, idx) ==
    [n \in 1..Cardinality(idx) |->
        s[CHOOSE i \in idx : Cardinality({j \in idx : j < i}) = n - 1]]

\* the first occurrences of the elements of s, in order
FirstOccurrences(s) ==
    AtIndices(s, {i \in DOMAIN s : \A j \in 1..(i - 1) : s[j] # s[i]})

\* the prefix class of a token: '6', then '7', then the others
ClassOf(t) == IF t[1] = "6" THEN 0 ELSE IF t[1] = "7" THEN 1 ELSE 2

\* s[i] stands before s[j] in the stable partition of s by class
Precedes(s, i, j) ==
    ClassOf(s[i]) < ClassOf(s[j]) \/ (ClassOf(s[i]) = ClassOf(s[j]) /\ i < j)

\* the stable partition of s by prefix class
StablePartition(s) ==
    [n \in 1..Len(s) |->
        s[CHOOSE i \in DOMAIN s :
             Cardinality({j \in DOMAIN s : Precedes(s, j, i)}) = n - 1]]

(***************************************************************************)
(* C10  The ranked sequence is the stable partition of the token sequence  *)
(* by prefix class ('6', then '7', then the others, each class in input    *)
(* order), of the same length; and the rows of a record carry the          *)
(* identifiers in the ranked order of the record's distinct tokens.        *)
(***************************************************************************)
C10_Ranking ==
    Normalized =>
        LET df == map_new_columns(raw)
            recs == df.rows
        IN  /\ Len(norm.rows) = RowsBefore(recs, Len(recs))
            /\ \A k \in DOMAIN recs :
                  LET pool == Pool(df.cols, recs[k])
                  IN  /\ RankTokens(pool) = StablePartition(pool)
                      /\ Len(RankTokens(pool)) = Len(pool)
                      /\ Resolvable(recs[k]) /\ pool # <<>> =>
                            Ids(RowsAt(recs, k)) = StablePartition(FirstOccurrences(pool))

\* a record whose '6' token of a later field is emitted before the '9' token
\* of an earlier field, with two '6' tokens kept in input order and a '7' token
C10_Witness ==
    /\ Normalized
    /\ LET df == map_new_columns(raw)
           recs == df.rows
       IN  \E k \in DOMAIN recs :
              LET ids == Ids(RowsAt(recs, k))
              IN  /\ Resolvable(recs[k])
                  /\ Len(ids) >= 4
                  /\ ClassOf(Pool(df.cols, recs[k])[1]) = 2
                  /\ ClassOf(ids[1]) = 0
                  /\ ClassOf(ids[2]) = 0
                  /\ ClassOf(ids[3]) = 1

(***************************************************************************)
(* The vocabulary of the properties of the Fallback Patcher and of the     *)
(* Output Filter                                                           *)
(***************************************************************************)
PatchedNow == pc = "patched"

Finalized == pc = "final"

BothNonEmpty == main.rows # <<>> /\ norm.rows # <<>>

\* the identifiers k of the normalized rows whose 'Original RMA', upper-cased,
\* contains the phrase, k exactly 8 digits
BlockedIds ==
    {norm.rows[j]["RMA Number"] :
        j \in {i \in DOMAIN norm.rows :
                 /\ IsEightDigits(norm.rows[i]["RMA Number"])
                 /\ Contains(Upper(norm.rows[i]["Original RMA"]), TXT_CONS_PICK_UP)}}

FinalIds == [k \in DOMAIN final.rows |-> final.rows[k]["RMA Number"]]

\* the first '6' token of a text if it has one, else its first 8-digit token,
\* else the empty string
BestToken(s) ==
    LET toks == RMA_ANY8_IN_TEXT_RX(s)
        six == {i \in DOMAIN toks : toks[i][1] = "6"}
    IN  IF toks = <<>> THEN EMPTY
        ELSE IF six # {} THEN toks[CHOOSE i \in six : \A j \in six : i <= j]
        ELSE toks[1]

\* the normalized rows of a tracking number
RowsWithTn(tn) == {i \in DOMAIN norm.rows : norm.rows[i]["Tracking Number"] = tn}

\* the fallback value of a tracking number: from the last normalized row that
\* has it, the empty string when no row has it
FallbackValue(tn) ==
    IF RowsWithTn(tn) = {} THEN EMPTY
    ELSE LET last == CHOOSE i \in RowsWithTn(tn) : \A j \in RowsWithTn(tn) : j <= i
         IN  BestToken(norm.rows[last]["Package Reference No. 2"])

\* the fallback value a main row looks up
Lookup(row) ==
    IF HasTn(row["Tracking Number - Details"])
    THEN FallbackValue(FirstTn(row["Tracking Number - Details"]))
    ELSE EMPTY

(***************************************************************************)
(* C2  Every row of the Final table has an 'RMA Number' of exactly 8       *)
(* digits; the rows whose patched and re-cleaned identifier is not 8       *)
(* digits are not in it: the Final rows are as many as the patched rows    *)
(* whose re-cleaned identifier is 8 digits and not blocked.                *)
(***************************************************************************)
C2_FinalIdsEightDigits ==
    Finalized =>
        /\ \A k \in DOMAIN final.rows : IsEightDigits(FinalIds[k])
        /\ Len(final.rows) =
              Cardinality({k \in DOMAIN patched.rows :
                  LET id == _clean_rma_string(patched.rows[k]["RMA Number"])
                  IN  IsEightDigits(id) /\ id \notin BlockedIds})

\* a Final table with a row, from a patched table with an 'N/A' row
C2_Witness ==
    /\ Finalized
    /\ Len(final.rows) >= 1
    /\ \E k \in DOMAIN patched.rows : patched.rows[k]["RMA Number"] = TXT_NA

(***************************************************************************)
(* C3  No identifier of the blocked set is the 'RMA Number' of a row of    *)
(* the Final table.                                                        *)
(***************************************************************************)
C3_NoBlockedInFinal ==
    Finalized => \A k \in DOMAIN final.rows : FinalIds[k] \notin BlockedIds

\* a blocked identifier that the Fallback Patcher supplied to one main row
\* and that another main row carried itself
C3_Witness ==
    /\ Finalized
    /\ \E k \in DOMAIN main.rows :
          /\ ~IsEightDigits(Strip(main.rows[k]["RMA Number"]))
          /\ patched.rows[k]["RMA Number"] \in BlockedIds
    /\ \E k \in DOMAIN main.rows : main.rows[k]["RMA Number"] \in BlockedIds

\* the record's only 8-digit token lies in a field that holds the phrase
OnlyTokenInConsText(r) ==
    /\ Resolvable(r)
    /\ TokenOccurrences(r) = 1
    /\ \A ci \in TokenPlaces(r) : Contains(Upper(r[ci[1]]), TXT_CONS_PICK_UP)

PatchedIds == [k \in DOMAIN patched.rows |-> patched.rows[k]["RMA Number"]]

MainIds == [k \in DOMAIN main.rows |-> main.rows[k]["RMA Number"]]

(***************************************************************************)
(* C5 as stated  With both tables non-empty, a main row whose identifier   *)
(* is exactly 8 digits keeps it; any other row gets the fallback value of  *)
(* the first 1Z tracking number of its details when that value is exactly  *)
(* 8 digits, and 'N/A' otherwise.                                          *)
(***************************************************************************)
C5_AsStated ==
    PatchedNow /\ BothNonEmpty =>
        /\ Len(patched.rows) = Len(main.rows)
        /\ \A k \in DOMAIN main.rows :
              PatchedIds[k] =
                 IF IsEightDigits(MainIds[k]) THEN MainIds[k]
                 ELSE IF IsEightDigits(Lookup(main.rows[k])) THEN Lookup(main.rows[k])
                 ELSE TXT_NA

(***************************************************************************)
(* C5 amended  With both tables non-empty, a main row whose identifier,    *)
(* trimmed of surrounding whitespace, is exactly 8 digits gets the trimmed *)
(* identifier; any other row gets the fallback value of the first 1Z       *)
(* tracking number of its details when that value is exactly 8 digits, and *)
(* 'N/A' otherwise.  So every patched identifier is 8 digits or 'N/A'.     *)
(***************************************************************************)
C5_Patch ==
    PatchedNow /\ BothNonEmpty =>
        /\ Len(patched.rows) = Len(main.rows)
        /\ \A k \in DOMAIN main.rows :
              /\ PatchedIds[k] =
                    IF IsEightDigits(Strip(MainIds[k])) THEN Strip(MainIds[k])
                    ELSE IF IsEightDigits(Lookup(main.rows[k])) THEN Lookup(main.rows[k])
                    ELSE TXT_NA
              /\ IsEightDigits(PatchedIds[k]) \/ PatchedIds[k] = TXT_NA

\* one main row takes a token from the fallback map, through the first of
\* the two tracking numbers of its details, and another row gets 'N/A'
C5_Witness ==
    /\ PatchedNow
    /\ BothNonEmpty
    /\ \E k \in DOMAIN main.rows :
          /\ MainIds[k] = EMPTY
          /\ main.rows[k]["Tracking Number - Details"] = IN_det_two
          /\ IsEightDigits(PatchedIds[k])
    /\ \E k \in DOMAIN main.rows :
          /\ MainIds[k] # TXT_NA
          /\ PatchedIds[k] = TXT_NA

(***************************************************************************)
(* C6  The fallback map holds, for each tracking number of the normalized  *)
(* table, the value derived from the last row that has it; a last row with *)
(* no valid token makes the value the empty string although an earlier row *)
(* had a token, and the main rows that look the tracking number up get     *)
(* 'N/A'.                                                                  *)
(***************************************************************************)
C6_LastRowWins ==
    /\ pc # "start" =>
          LET m == tn_to_pr2(norm.rows, Len(norm.rows))
          IN  /\ DOMAIN m = {norm.rows[i]["Tracking Number"] : i \in DOMAIN norm.rows}
              /\ \A tn \in DOMAIN m : m[tn] = FallbackValue(tn)
    /\ PatchedNow /\ BothNonEmpty =>
          \A k \in DOMAIN main.rows :
             /\ ~IsEightDigits(Strip(MainIds[k]))
             /\ HasTn(main.rows[k]["Tracking Number - Details"])
             /\ FallbackValue(FirstTn(main.rows[k]["Tracking Number - Details"])) = EMPTY
             => PatchedIds[k] = TXT_NA

\* two normalized rows of one tracking number, the earlier with a token in
\* its secondary reference and the last without, and a main row looking it up
C6_Witness ==
    /\ PatchedNow
    /\ \E i, j \in DOMAIN norm.rows :
          /\ i < j
          /\ norm.rows[i]["Tracking Number"] = norm.rows[j]["Tracking Number"]
          /\ IsEightDigits(BestToken(norm.rows[i]["Package Reference No. 2"]))
          /\ FallbackValue(norm.rows[j]["Tracking Number"]) = EMPTY
          /\ \E k \in DOMAIN main.rows :
                /\ ~IsEightDigits(Strip(MainIds[k]))
                /\ HasTn(main.rows[k]["Tracking Number - Details"])
                /\ FirstTn(main.rows[k]["Tracking Number - Details"])
                      = norm.rows[j]["Tracking Number"]
                /\ PatchedIds[k] = TXT_NA

(***************************************************************************)
(* The vocabulary of the properties of the Schema Harmonizer               *)
(***************************************************************************)
\* the canonical name of a column whose lower-cased, trimmed name is a known
\* header, and the name itself of any other column
CanonicalOf(c) ==
    IF \E m \in Range(MappingValues) : HeaderKey(m) = HeaderKey(c)
    THEN CHOOSE m \in Range(MappingValues) : HeaderKey(m) = HeaderKey(c)
    ELSE c

\* the canonical columns a table has, under any of their header variants
CanonicalPresent(df) == {CanonicalOf(df.cols[i]) : i \in DOMAIN df.cols}

\* the table with each missing canonical column put in front of the others,
\* the empty string in every row
Completed(df) ==
    LET missing == SelectSeq(MappingValues, LAMBDA c : c \notin CanonicalPresent(df))
    IN  [cols |-> missing \o df.cols,
         rows |-> [k \in DOMAIN df.rows |->
                     [c \in Range(missing) \cup Range(df.cols) |->
                        IF c \in Range(df.cols) THEN df.rows[k][c] ELSE EMPTY]]]

(***************************************************************************)
(* C16  For a raw table that lacks canonical columns, build_new_norm       *)
(* returns the table it returns when each missing column is present with   *)
(* the empty string in every row.                                          *)
(***************************************************************************)
C16_MissingColumns ==
    Normalized =>
        /\ norm.cols = NormCols
        /\ norm = build_new_norm(Completed(raw))

\* a raw table with neither 'Tracking Number' nor 'RMA Number' nor 'Package
\* Reference No. 2', whose record gets its tracking number from the details
C16_Witness ==
    /\ Normalized
    /\ {"Tracking Number", "RMA Number", "Package Reference No. 2", "Status"}
          \cap CanonicalPresent(raw) = {}
    /\ Len(norm.rows) >= 1
    /\ norm.rows[1]["Tracking Number"] = IN_tn_b
    /\ norm.rows[1]["RMA Number"] # EMPTY
    /\ norm.rows[1]["Package Reference No. 2"] = TXT_NA

(***************************************************************************)
(* C17  map_new_columns renames a column whose lower-cased, trimmed name   *)
(* is a known header to the canonical name, passes every other column      *)
(* through with its name and values, and adds every canonical column still *)
(* absent with the empty string in every row; applied twice it gives the   *)
(* table it gives applied once.                                            *)
(***************************************************************************)
C17_MapNewColumns ==
    Normalized =>
        LET once == map_new_columns(raw)
            n == Len(raw.cols)
            added == SubSeq(once.cols, n + 1, Len(once.cols))
        IN  /\ Len(once.cols) >= n
            /\ \A i \in 1..n : once.cols[i] = CanonicalOf(raw.cols[i])
            /\ Range(added) = Range(MappingValues) \ CanonicalPresent(raw)
            /\ Cardinality(Range(added)) = Len(added)
            /\ Len(once.rows) = Len(raw.rows)
            /\ \A k \in DOMAIN raw.rows :
                  /\ DOMAIN once.rows[k] = Range(once.cols)
                  /\ \A i \in 1..n :
                        once.rows[k][once.cols[i]] = raw.rows[k][raw.cols[i]]
                  /\ \A c \in Range(added) : once.rows[k][c] = EMPTY
            /\ map_new_columns(once) = once

\* a raw table with header variants, a column the mapping ignores and
\* canonical columns missing
C17_Witness ==
    /\ Normalized
    /\ raw.cols = RawColsB
    /\ Len(raw.rows) = 1
    /\ map_new_columns(raw).cols[2] = "Tracking Number"
    /\ map_new_columns(raw).cols[1] = "Notes"
    /\ map_new_columns(raw).rows[1]["Notes"] = IN_notes
    /\ map_new_columns(raw).rows[1]["Status"] = EMPTY

(***************************************************************************)
(* The vocabulary of the properties of the helpers                         *)
(***************************************************************************)
Returned == pc = "returned"

\* the positions of a text where a run of exactly eight digits starts
RunStarts(s) ==
    {i \in 1..(Len(s) - 7) :
        /\ \A j \in i..(i + 7) : s[j] \in Digits
        /\ i > 1 => s[i - 1] \notin Digits
        /\ i + 8 <= Len(s) => s[i + 8] \notin Digits}

\* the runs of exactly eight digits of a text, from left to right
EightDigitRuns(s) ==
    LET starts == RunStarts(s)
    IN  [n \in 1..Cardinality(starts) |->
            LET i == CHOOSE i \in starts : Cardinality({j \in starts : j < i}) = n - 1
            IN  SubSeq(s, i, i + 7)]

Kept ==
    {k \in DOMAIN norm.rows :
        /\ IsEightDigits(norm.rows[k]["RMA Number"])
        /\ norm.rows[k]["RMA Number"] \notin BlockedIds}

\* the normalized row the n-th Final row derives from
DerivedFrom(n) ==
    norm.rows[CHOOSE k \in Kept : Cardinality({j \in Kept : j < k}) = n - 1]

(***************************************************************************)
(* C13  Every row of the Final table of the application has a non-empty    *)
(* value in every one of the eleven final columns, 'Tracking Number -      *)
(* Details' among them.                                                    *)
(***************************************************************************)
C13_ProjectionComplete ==
    Finalized =>
        \A i \in DOMAIN final.rows :
            \A c \in Range(FINAL_COLS) : final.rows[i][c] # EMPTY

(***************************************************************************)
(* C14  No two rows of the Final table of the application derive from      *)
(* normalized rows with the same tracking number and the same identifier.  *)
(***************************************************************************)
C14_OneRowPerPair ==
    Finalized =>
        \A n, m \in DOMAIN final.rows :
            n # m =>
               \/ DerivedFrom(n)["Tracking Number"] # DerivedFrom(m)["Tracking Number"]
               \/ DerivedFrom(n)["RMA Number"] # DerivedFrom(m)["RMA Number"]

(***************************************************************************)
(* The vocabulary of the properties of the direct calls.  arg holds the    *)
(* tables as they were when the call was made; raw, main and norm are the  *)
(* caller's tables after it.                                               *)
(***************************************************************************)
Called(call) == pc = "returned" /\ arg.call = call

IsTable(x) == "cols" \in DOMAIN x

\* an empty table: no rows, with or without columns
NoRows(x) == IsTable(x) /\ x.rows = <<>>

\* absent, or empty as df.empty has it
EmptyOrAbsent(x) == IsNone(x) \/ x.rows = <<>> \/ x.cols = <<>>

(***************************************************************************)
(* C11  patch_rma_na_with_pr2 leaves both input tables as they were; the   *)
(* returned table has the rows of the main table in the same order and     *)
(* differs from it in the 'RMA Number' column only; when either input is   *)
(* empty or absent the returned table is the main table unchanged.         *)
(***************************************************************************)
C11_PatchFrame ==
    Called("patch_rma_na_with_pr2") =>
        /\ main = arg.main
        /\ norm = arg.norm
        /\ (EmptyOrAbsent(arg.main) \/ EmptyOrAbsent(arg.norm)) => ret = arg.main
        /\ IsTable(arg.main) =>
              /\ IsTable(ret)
              /\ Len(ret.rows) = Len(arg.main.rows)
              /\ SelectSeq(ret.cols, LAMBDA c : c # "RMA Number")
                    = SelectSeq(arg.main.cols, LAMBDA c : c # "RMA Number")
              /\ \A k \in DOMAIN ret.rows :
                    \A c \in Range(arg.main.cols) \ {"RMA Number"} :
                       ret.rows[k][c] = arg.main.rows[k][c]

\* a call that replaced the identifier of the second row of a main table,
\* and a main table that still has the identifier it had
C11_Witness ==
    /\ Called("patch_rma_na_with_pr2")
    /\ ~arg.same
    /\ IsTable(ret)
    /\ Len(ret.rows) = 2
    /\ ret.rows[2]["RMA Number"] = IN_id_7
    /\ main.rows[2]["RMA Number"] = TXT_NA
    /\ ret.rows[1]["Carrier"] = main.rows[1]["Carrier"]

(***************************************************************************)
(* C12  For every pair of input tables build_final_output_df returns a     *)
(* table with exactly the eleven final columns in their order: the helper  *)
(* columns and any other column of the main table are absent, and a final  *)
(* column missing from the main table is present with empty values.        *)
(***************************************************************************)
C12_FinalColumns ==
    (Called("build_final_output_df") /\ IsTable(arg.main) /\ IsTable(arg.norm)) =>
        /\ IsTable(ret)
        /\ ret.cols = FINAL_COLS
        /\ \A k \in DOMAIN ret.rows :
              /\ DOMAIN ret.rows[k] = Range(FINAL_COLS)
              /\ \A c \in Range(FINAL_COLS) \ Range(arg.main.cols) :
                    ret.rows[k][c] = EMPTY

(***************************************************************************)
(* C15  Called with an empty table as main or normalized input, each of    *)
(* build_new_norm, patch_rma_na_with_pr2 and build_final_output_df returns *)
(* without an error; build_final_output_df called with an empty main table *)
(* returns an empty table that has the final columns.                      *)
(***************************************************************************)
C15_EmptyNeverRaises ==
    /\ (Called("build_new_norm") /\ NoRows(arg.raw)) => IsTable(ret)
    /\ (Called("patch_rma_na_with_pr2") /\ (NoRows(arg.main) \/ NoRows(arg.norm))) =>
          ~Raised(ret)
    /\ (Called("build_final_output_df") /\ IsTable(arg.main) /\ IsTable(arg.norm)
          /\ (NoRows(arg.main) \/ NoRows(arg.norm))) =>
          /\ ~Raised(ret)
          /\ NoRows(arg.main) => ret = Table(FINAL_COLS, <<>>)

(***************************************************************************)
(* C18  After build_new_norm, patch_rma_na_with_pr2 or                     *)
(* build_final_output_df returns, each input table has the columns, rows   *)
(* and cell values it had before the call, also when the same table object *)
(* is passed as both main and normalized argument.                         *)
(***************************************************************************)
C18_NoMutation ==
    (pc = "returned") =>
        /\ raw = arg.raw
        /\ main = arg.main
        /\ norm = arg.norm

\* build_final_output_df on a main table with no helper column, the patcher
\* a no-op: the identifier is re-normalized in the returned row and the
\* caller's row still has its padded identifier
C18_Witness ==
    /\ Called("build_final_output_df")
    /\ IsTable(arg.norm)
    /\ arg.norm.rows = <<>>
    /\ IsTable(ret)
    /\ Len(ret.rows) = 1
    /\ main.rows[1]["RMA Number"] = IN_id_padded
    /\ ret.rows[1]["RMA Number"] = Strip(IN_id_padded)
    /\ "Carrier" \in Range(main.cols)

(***************************************************************************)
(* The vocabulary of the properties of the rows of the Row Expander        *)
(***************************************************************************)
\* the trimmed text of the first field of a record, in the column order of
\* the harmonized table, that has the token t as a run of eight digits
FirstSource(cols, r, t) ==
    LET hits == {i \in DOMAIN cols : t \in Range(EightDigitRuns(Strip(r[cols[i]])))}
    IN  Strip(r[cols[CHOOSE i \in hits : \A j \in hits : i <= j]])

(***************************************************************************)
(* C21  The 'Original RMA' of a row emitted for a token is the trimmed     *)
(* text of the first field, in the column order of the harmonized table,   *)
(* whose tokens include it, so it is non-empty and has the token as a run  *)
(* of eight digits; the 'Original RMA' of a placeholder row is the trimmed *)
(* 'RMA Number' field of the record, an empty field staying empty.         *)
(***************************************************************************)
C21_OriginalRma ==
    Normalized =>
        LET df == map_new_columns(raw)
            recs == df.rows
        IN  /\ Len(norm.rows) = RowsBefore(recs, Len(recs))
            /\ \A k \in DOMAIN recs :
                  LET rows == RowsAt(recs, k)
                  IN  \A i \in DOMAIN rows :
                         IF rows[i]["RMA Number"] = EMPTY
                         THEN rows[i]["Original RMA"] = Strip(recs[k]["RMA Number"])
                         ELSE /\ rows[i]["Original RMA"]
                                    = FirstSource(df.cols, recs[k], rows[i]["RMA Number"])
                              /\ rows[i]["Original RMA"] # EMPTY
                              /\ rows[i]["RMA Number"]
                                    \in Range(EightDigitRuns(rows[i]["Original RMA"]))

\* a record whose token is in the 'RMA Number' field and in the 'Tracking
\* Number' field after it
C21_Witness ==
    /\ Normalized
    /\ raw.cols = RawColsA
    /\ Len(raw.rows) = 1
    /\ raw.rows[1]["RMA Number"] = IN_rma_free
    /\ raw.rows[1]["Tracking Number"] = IN_tn_with_token
    /\ Len(norm.rows) = 1
    /\ norm.rows[1]["Original RMA"] = IN_rma_free

(***************************************************************************)
(* C22  The rows of the normalized table are in record-then-token order:   *)
(* the rows of each record are those the record gives alone, they are      *)
(* contiguous and follow the rows of every earlier record, and a skipped   *)
(* record leaves no row.                                                   *)
(***************************************************************************)
C22_RecordOrder ==
    Normalized =>
        LET recs == Records
        IN  /\ Len(norm.rows) = RowsBefore(recs, Len(recs))
            /\ \A k \in DOMAIN recs :
                  RowsAt(recs, k) = build_new_norm(Table(raw.cols, <<raw.rows[k]>>)).rows

\* two records, the first with two rows and the second with one
C22_Witness ==
    /\ Normalized
    /\ Len(raw.rows) = 2
    /\ Len(norm.rows) = 3
    /\ norm.rows[1]["Tracking Number"] = IN_tn_a
    /\ norm.rows[2]["Tracking Number"] = IN_tn_a
    /\ norm.rows[3]["Tracking Number"] = IN_tn_b
    /\ norm.rows[1]["RMA Number"] # norm.rows[2]["RMA Number"]

\* the rows the expansion loop appends, before the re-normalization pass
Emitted ==
    LET df == map_new_columns(raw)
    IN  Flatten([k \in DOMAIN df.rows |-> RowsOfRecord(df.cols, df.rows[k])])

(***************************************************************************)
(* C29  In the table build_new_norm returns each 'RMA Number' is the empty *)
(* string or exactly 8 digits, each 'Tracking Number' is non-empty and     *)
(* upper-cased, and the re-normalization pass changed no identifier the    *)
(* expansion loop emitted.                                                 *)
(***************************************************************************)
C29_NormalizedTable ==
    Normalized =>
        /\ \A i \in DOMAIN norm.rows :
              /\ norm.rows[i]["RMA Number"] = EMPTY
                    \/ IsEightDigits(norm.rows[i]["RMA Number"])
              /\ norm.rows[i]["Tracking Number"] # EMPTY
              /\ norm.rows[i]["Tracking Number"] = Upper(norm.rows[i]["Tracking Number"])
        /\ Len(norm.rows) = Len(Emitted)
        /\ \A i \in DOMAIN norm.rows :
              norm.rows[i]["RMA Number"] = Emitted[i]["RMA Number"]

\* a table with a placeholder row and a row with a token, the tracking
\* number of an input in lower case
C29_Witness ==
    /\ Normalized
    /\ Len(norm.rows) = 2
    /\ norm.rows[1]["RMA Number"] = IN_id_7
    /\ norm.rows[1]["Tracking Number"] = IN_tn_b
    /\ norm.rows[2]["RMA Number"] = EMPTY
    /\ raw.rows[1]["Tracking Number - Details"] = IN_det_b

(***************************************************************************)
(* The vocabulary of the properties of the status and of the re-cleaning   *)
(***************************************************************************)
\* the rules of the canonical status in the order of their test: the
\* phrases of a rule and its result
StatusRules ==
    << <<{TXT_delivered}, TXT_Delivered>>,
       <<{TXT_exception}, TXT_Exception>>,
       <<{TXT_in_transit}, TXT_In_Transit>>,
       <<{TXT_out_for_delivery, TXT_out_of_delivery}, TXT_Out_for_Delivery>>,
       <<{TXT_manifest}, TXT_Manifest>>,
       <<{TXT_void}, TXT_Void>>,
       <<{TXT_not_avail}, TXT_NA>> >>

\* the rules a lower-cased text matches; the last one also matches a blank
MatchingRules(s) ==
    {i \in DOMAIN StatusRules :
        \/ \E p \in StatusRules[i][1] : Contains(s, p)
        \/ i = Len(StatusRules) /\ s = EMPTY}

\* the best-ranked of the runs of eight digits of a text, or the empty text
BestRun(text) ==
    LET runs == EightDigitRuns(text)
    IN  IF runs = <<>> THEN EMPTY ELSE StablePartition(FirstOccurrences(runs))[1]

(***************************************************************************)
(* C23  _canonical_status tests its rules in the order delivered,          *)
(* exception, in transit, out for/of delivery, manifest, void, blank or    *)
(* 'not avail', by substring on the trimmed lower-cased text; the first    *)
(* rule that matches decides, and a text that matches none is returned     *)
(* trimmed, in its own case.                                               *)
(***************************************************************************)
C23_CanonicalStatus ==
    (Returned /\ "status" \in DOMAIN arg) =>
        LET s == Lower(Strip(arg.status))
            m == MatchingRules(s)
        IN  /\ m # {} =>
                  ret = StatusRules[CHOOSE i \in m : \A j \in m : i <= j][2]
            /\ m = {} =>
                  ret = IF Strip(arg.status) = EMPTY THEN TXT_NA ELSE Strip(arg.status)
            /\ (Contains(s, TXT_delivered) /\ Contains(s, TXT_exception))
                  => ret = TXT_Delivered
            /\ s = TXT_out_for_delivery => ret = TXT_Out_for_Delivery

\* a text with 'exception' before 'delivered'
C23_Witness ==
    /\ Returned
    /\ "status" \in DOMAIN arg
    /\ arg.status = TXT_exception \o <<" ">> \o TXT_delivered
    /\ ret = TXT_Delivered

(***************************************************************************)
(* C24  normalize_rma_column_inplace leaves a column of values of exactly  *)
(* 8 digits unchanged, and applied to its own result changes nothing: each *)
(* value becomes the empty string or the best-ranked 8-digit token of its  *)
(* text.                                                                   *)
(***************************************************************************)
C24_Idempotent ==
    (Returned /\ "df" \in DOMAIN arg) =>
        /\ (\A k \in DOMAIN arg.df.rows :
                "RMA Number" \in DOMAIN arg.df.rows[k]
                /\ IsEightDigits(arg.df.rows[k]["RMA Number"]))
              => ret = arg.df
        /\ normalize_rma_column_inplace(ret) = ret
        /\ ret.cols = arg.df.cols
        /\ Len(ret.rows) = Len(arg.df.rows)
        /\ \A k \in DOMAIN ret.rows :
              "RMA Number" \in DOMAIN ret.rows[k] =>
                 ret.rows[k]["RMA Number"] = BestRun(arg.df.rows[k]["RMA Number"])

\* a column of a token and of a text with three tokens
C24_Witness ==
    /\ Returned
    /\ "df" \in DOMAIN arg
    /\ Len(arg.df.rows) = 2
    /\ arg.df.rows[1]["RMA Number"] = IN_id_7
    /\ arg.df.rows[2]["RMA Number"] = IN_rma_three
    /\ ret.rows[1]["RMA Number"] = IN_id_7
    /\ ret.rows[2]["RMA Number"] = SubSeq(IN_rma_three, 19, 26)

(***************************************************************************)
(* C25  For every text the token the Fallback Patcher picks from it,       *)
(* _pick_best_rma over the tokens of the text, is the token               *)
(* _clean_rma_string returns for it, the first of the ranking of the same  *)
(* tokens: as stated, for every text.                                      *)
(***************************************************************************)
C25_AsStated ==
    (Returned /\ "value" \in DOMAIN arg) =>
        /\ ret = BestRun(arg.value)
        /\ _pick_best_rma(RMA_ANY8_IN_TEXT_RX(Strip(arg.value))) = ret

(***************************************************************************)
(* C25  _clean_rma_string returns the first of the ranking of the tokens   *)
(* of the text, and _pick_best_rma over the same tokens picks the first    *)
(* token that starts with '6', else the first token: the two agree unless  *)
(* no token starts with '6', the first token does not start with '7' and a *)
(* later one does, and then the patcher picks the first token and the      *)
(* ranking the first that starts with '7'.                                 *)
(***************************************************************************)
C25_Agree ==
    (Returned /\ "value" \in DOMAIN arg) =>
        LET runs == EightDigitRuns(arg.value)
            picked == _pick_best_rma(RMA_ANY8_IN_TEXT_RX(Strip(arg.value)))
            differ == /\ \A n \in DOMAIN runs : ClassOf(runs[n]) # 0
                      /\ \E n \in DOMAIN runs : ClassOf(runs[n]) = 1
                      /\ ClassOf(runs[1]) = 2
        IN  /\ ret = BestRun(arg.value)
            /\ runs = <<>> => picked = EMPTY
            /\ (runs # <<>> /\ ~ differ) => picked = ret
            /\ (runs # <<>> /\ differ) =>
                  /\ picked = runs[1]
                  /\ ClassOf(ret) = 1
                  /\ picked # ret

\* a text of a token that starts with '9' and then one that starts with '7'
C25_Witness ==
    /\ Returned
    /\ "value" \in DOMAIN arg
    /\ arg.value = SubSeq(IN_rma_three, 1, 17)
    /\ ret = SubSeq(IN_rma_three, 10, 17)
    /\ _pick_best_rma(RMA_ANY8_IN_TEXT_RX(Strip(arg.value))) = IN_rma_strict9

(***************************************************************************)
(* The vocabulary of the properties of the application's pipeline          *)
(***************************************************************************)
\* the index in the normalized table of the n-th kept row
KeptAt(n) == CHOOSE k \in Kept : Cardinality({j \in Kept : j < k}) = n - 1

\* the record the j-th row of the normalized table was expanded from
RecordOf(recs, j) ==
    CHOOSE k \in DOMAIN recs : RowsBefore(recs, k - 1) < j /\ j <= RowsBefore(recs, k)

\* the first field of the record that has the token also has the phrase
FirstSourceBlocks(cols, r, t) ==
    Contains(Upper(FirstSource(cols, r, t)), TXT_CONS_PICK_UP)

(***************************************************************************)
(* C26  In the application's pipeline the Fallback Patcher supplies no     *)
(* identifier: the normalized table has no 'Tracking Number - Details'     *)
(* column, every row without a valid identifier is set to 'N/A', and the   *)
(* Final table has a row for each kept row of the normalized table and no  *)
(* row for a placeholder, whatever the other records of its tracking       *)
(* number hold.                                                            *)
(***************************************************************************)
C26_NoFallback ==
    Finalized =>
        /\ "Tracking Number - Details" \notin Range(norm.cols)
        /\ Len(patched.rows) = Len(norm.rows)
        /\ \A i \in DOMAIN norm.rows :
              PatchedIds[i] = IF IsEightDigits(norm.rows[i]["RMA Number"])
                              THEN norm.rows[i]["RMA Number"]
                              ELSE TXT_NA
        /\ Len(final.rows) = Cardinality(Kept)
        /\ \A n \in DOMAIN final.rows :
              FinalIds[n] = norm.rows[KeptAt(n)]["RMA Number"]

\* a placeholder row after the rows of a record of the same tracking number
\* whose secondary reference has a valid token
C26_Witness ==
    /\ Finalized
    /\ Len(norm.rows) = 3
    /\ norm.rows[3]["RMA Number"] = EMPTY
    /\ norm.rows[3]["Tracking Number"] = norm.rows[1]["Tracking Number"]
    /\ norm.rows[1]["Package Reference No. 2"] = IN_pr2_six
    /\ PatchedIds[3] = TXT_NA
    /\ Len(final.rows) = 1

(***************************************************************************)
(* C27  In the application's pipeline every 8-digit token of a field of a  *)
(* record with a resolvable tracking number that is not in the blocked set *)
(* is the identifier of a row of the Final table, and every identifier of  *)
(* the Final table is such a token of the record its row was expanded      *)
(* from.                                                                   *)
(***************************************************************************)
C27_Completeness ==
    Finalized =>
        LET recs == Records
        IN  /\ \A k \in DOMAIN recs :
                  Resolvable(recs[k]) =>
                     \A t \in DistinctTokens(recs[k]) \ BlockedIds :
                        \E n \in DOMAIN final.rows : FinalIds[n] = t
            /\ Len(final.rows) = Cardinality(Kept)
            /\ \A n \in DOMAIN final.rows :
                  LET k == RecordOf(recs, KeptAt(n))
                  IN  /\ Resolvable(recs[k])
                      /\ FinalIds[n] \in DistinctTokens(recs[k])
                      /\ FinalIds[n] \notin BlockedIds
                      /\ FinalIds[n] = norm.rows[KeptAt(n)]["RMA Number"]

\* two records: a token of the first is in the Final table, and the token
\* of the second is blocked by the first
C27_Witness ==
    /\ Finalized
    /\ Len(raw.rows) = 2
    /\ raw.rows[2]["Package Reference No. 2"] = IN_pr2_seven
    /\ IN_id_7 \in BlockedIds
    /\ Len(norm.rows) = 3
    /\ Len(final.rows) = 1
    /\ FinalIds[1] = SubSeq(IN_pr2_six, 6, 13)

(***************************************************************************)
(* C28  Blocking is decided by the first source field: the row of a token  *)
(* has as 'Original RMA' the first field of its record, in column order,   *)
(* that has the token, and a token of a resolvable record is in the Final  *)
(* table unless, in some resolvable record, the first field that has the   *)
(* token has the phrase 'CONS PICK UP'; a later field with the phrase      *)
(* blocks nothing.                                                         *)
(***************************************************************************)
C28_FirstSourceBlocks ==
    Finalized =>
        LET df == map_new_columns(raw)
            recs == df.rows
            resolvable == {k \in DOMAIN recs : Resolvable(recs[k])}
        IN  \A k \in resolvable :
               \A t \in DistinctTokens(recs[k]) :
                  /\ \E i \in DOMAIN RowsAt(recs, k) :
                        /\ RowsAt(recs, k)[i]["RMA Number"] = t
                        /\ RowsAt(recs, k)[i]["Original RMA"]
                              = FirstSource(df.cols, recs[k], t)
                  /\ t \in BlockedIds
                        <=> \E k2 \in resolvable :
                               /\ t \in DistinctTokens(recs[k2])
                               /\ FirstSourceBlocks(df.cols, recs[k2], t)
                  /\ (t \in Range(FinalIds)) <=> (t \notin BlockedIds)

\* a record with a token in its notes, without the phrase, and in its
\* ship-to field after them, with the phrase
C28_Witness ==
    /\ Finalized
    /\ raw.cols = RawColsB
    /\ Len(raw.rows) = 1
    /\ raw.rows[1]["Notes"] = IN_pr2_six
    /\ raw.rows[1][" ship to"] = IN_shipto_cons
    /\ SubSeq(IN_pr2_six, 6, 13) \in Range(FinalIds)
    /\ \E i \in DOMAIN norm.rows :
          /\ norm.rows[i]["RMA Number"] = SubSeq(IN_pr2_six, 6, 13)
          /\ norm.rows[i]["Original RMA"] = IN_pr2_six

(***************************************************************************)
(* C30  The rows of the table build_final_output_df returns are a          *)
(* subsequence of the rows of the main table: no more rows, in the same    *)
(* relative order, each with the final columns of its main row other than  *)
(* the identifier, and with the identifier the patch and the re-cleaning   *)
(* gave that row.                                                          *)
(***************************************************************************)
C30_Subsequence ==
    Finalized =>
        /\ Len(final.rows) <= Len(main.rows)
        /\ \E f \in [DOMAIN final.rows -> DOMAIN main.rows] :
              /\ \A a, b \in DOMAIN final.rows : a < b => f[a] < f[b]
              /\ \A n \in DOMAIN final.rows :
                    /\ \A c \in Range(FINAL_COLS) \ {"RMA Number"} :
                          final.rows[n][c] = Field(main.rows[f[n]], c)
                    /\ FinalIds[n] = BestRun(PatchedIds[f[n]])

\* a main table of two rows of which the Final table has the second only
C30_Witness ==
    /\ Finalized
    /\ Len(main.rows) = 2
    /\ Len(final.rows) = 1
    /\ main.rows[1]["Tracking Number - Details"] = IN_det_a
    /\ main.rows[2]["Tracking Number - Details"] = IN_det_b
    /\ final.rows[1]["Tracking Number - Details"] = IN_det_b
    /\ FinalIds[1] = Strip(IN_id_padded)

====
